---- MODULE Spec2Model ----
(***************************************************************************)
(* Renderly: the video job pipeline (video_generation/tasks.py) driven by  *)
(* the Celery queue, over one persisted VideoJob record.                   *)
(*                                                                         *)
(* One job record lives in the database (db).  Task messages for the job   *)
(* sit in the queue; each worker that takes one runs process_video_job     *)
(* from the top, holding its own in-memory copy of the record (job[w]).    *)
(* Every database access and every remote call is one step, so concurrent  *)
(* runs on the same job interleave at exactly the points where the code    *)
(* touches shared state.  Model.save() writes every field of the in-memory *)
(* copy.                                                                   *)
(***************************************************************************)
EXTENDS Integers, Sequences, FiniteSets, TLC

VARIABLES
    nScenes,      \* len(job.scenes_data), fixed when the job is created
    bgMusic,      \* settings.BG_MUSIC_URLS: "absent", "empty" or "present"
    mixer,        \* whether merge_service.add_background_music_to_video imports
    db,           \* the persisted VideoJob row
    queue,        \* queue[r]: task messages waiting with request.retries = r
    started,      \* runs of process_video_job started so far
    pool,         \* the worker processes that consume the queue
    pc,           \* pc[w]: where worker w is in process_video_job
    job,          \* job[w]: the in-memory VideoJob of worker w
    i,            \* i[w]: index of the scene being generated (0-based)
    scene_uris,   \* scene_uris[w]: resolved clip locations, in order
    scene_urls,   \* scene_urls[w]: fetchable URLs handed to the merge
    final_url,    \* final_url[w]: URL returned by poll_video_status
    exc,          \* exc[w]: message of the exception being handled
    retries,      \* retries[w]: self.request.retries of the current run
    calls,        \* calls[w]: remote calls issued by the current run
    run           \* run[w]: bookkeeping of the current run (what it saw)

\* The pipeline: one VideoJob record and the runs of the task on it.
pipelineVars ==
    <<nScenes, bgMusic, mixer, db, queue, started, pool, pc, job, i,
      scene_uris, scene_urls, final_url, exc, retries, calls, run>>

\* The credential provider of one process (services/gcp_auth.py) and the
\* threads of that process that use it.
VARIABLES
    instance,     \* GCPAuthManager._instance is not None
    init_lock,    \* holder of GCPAuthManager._init_lock, or NoThread
    initialized,  \* self._initialized
    lock_obj,     \* which Lock object self._lock is (0: not yet assigned)
    lock_holder,  \* lock_holder[l]: holder of Lock object l, or NoThread
    creds,        \* self._credentials: loaded or not, its token and expiry
    token,        \* self._token
    expiry,       \* self._expiry
    now,          \* the clock, in minutes
    tpc,          \* tpc[t]: where thread t is
    tlock,        \* tlock[t]: the Lock object t entered with
    tcall,        \* tcall[t]: bookkeeping of t's current or last call
    granted,      \* tokens the credentials have been granted so far
    inits         \* times the body of __init__ has been entered

authVars ==
    <<instance, init_lock, initialized, lock_obj, lock_holder, creds, token,
      expiry, now, tpc, tlock, tcall, granted, inits>>

\* The HeyGen client (services/heygen_service.py) and the call in progress.
VARIABLES
    op,           \* the call in progress, or "idle"
    ops,          \* calls made so far
    attempt,      \* the loop index of the call (attempt, retry)
    max_retries,  \* the max_retries poll_video_status was called with
    last_error,   \* last_error of generate_avatar_video
    log,          \* what each request of the call met, in order
    sleeps,       \* the waits generate_avatar_video has made, in order
    result,       \* what the last call returned or raised
    seen          \* the exception classes upload failures have shown

clientVars ==
    <<op, ops, attempt, max_retries, last_error, log, sleeps, result, seen>>

\* The Veo client (services/veo_service.py) and the call in progress.
VARIABLES
    veo_op,       \* the call in progress, or "idle"
    veo_ops,      \* calls made so far
    veo_urls,     \* how many status URLs poll_operation has (urls)
    veo_expected, \* expected_storage_uri was given to poll_operation
    veo_max,      \* the max_retries poll_operation was called with
    veo_round,    \* rounds of the polling loop completed
    veo_log,      \* requests, probes and waits of the call, in order
    veo_result,   \* what the last call returned or raised
    veo_asked,    \* the duration the scene of the call asks for
    veo_params    \* "parameters" of each submission of the call, in order

veoVars ==
    <<veo_op, veo_ops, veo_urls, veo_expected, veo_max, veo_round, veo_log,
      veo_result, veo_asked, veo_params>>

\* The merge of the scene clips (services/merge_service.py) and the call in
\* progress.
VARIABLES
    merge_op,     \* where merge_scene_urls_to_gcs is, or how it ended
    merge_ops,    \* calls made so far
    clips,        \* scene_urls: the clips to merge, each named by its content
    temp_paths,   \* temp_paths: the files the clips were downloaded to
    downloaded,   \* downloaded[k]: the content written to the k-th temp file
    files,        \* the temporary files of the call that exist
    list_file,    \* the lines of the concat list file
    merged,       \* the content of the merged output file, clip by clip
    uploaded,     \* the content of the object at target_gcs_uri
    merge_result  \* what the last call returned or raised

mergeVars ==
    <<merge_op, merge_ops, clips, temp_paths, downloaded, files, list_file,
      merged, uploaded, merge_result>>

\* The intake of generate requests (views.py, generate) and the setting it
\* reads.
VARIABLES
    run_task_inline,  \* settings.RUN_TASK_INLINE, "unread" until loaded
    req_pc,           \* req_pc[r]: where the handler of request r is
    broker_ok,        \* broker_ok[r]: what the broker check of r found
    created,          \* created[r]: the status request r created its job in
    published,        \* published[r]: task messages for r's job on the queue
    threads,          \* threads[r]: inline threads started for r's job
    responses         \* responses[r]: the status code answered to r

intakeVars ==
    <<run_task_inline, req_pc, broker_ok, created, published, threads,
      responses>>

\* Several jobs, each processed by its own run of process_video_job
\* (tasks.py), the rows of the jobs table and the storage bucket they share.
VARIABLES
    rows,       \* rows[id]: the VideoJob row of job id
    mem,        \* mem[id]: the `job` instance held by the run on job id
    jpc,        \* jpc[id]: where the run on job id is
    scene,      \* scene[id]: the scene the run on job id is at
    bucket,     \* the objects of settings.GCS_BUCKET
    picked,     \* picked[id]: scene_uris, each clip named by the job whose
                \* generation wrote it
    overlaid    \* overlaid[id]: the job whose merged clip the run on job id
                \* uploaded to HeyGen

jobsVars == <<rows, mem, jpc, scene, bucket, picked, overlaid>>

vars ==
    <<pipelineVars, authVars, clientVars, veoVars, mergeVars, intakeVars,
      jobsVars>>

(***************************************************************************)
(* Bounds and program constants                                            *)
(***************************************************************************)
\* Runs of process_video_job on the job: first deliveries of its message,
\* duplicate deliveries and queue retries together.
MaxRuns == 2

\* serializers.py: scenes = ListField(min_length=1, max_length=20)
MinScenes == 1
MaxScenes == 20

\* Scene counts tried: the smallest, the largest, one pass of the loop, and
\* the first counts at which the checkpoint of tasks.py:38 passes 60 and 100.
SceneCounts ==
    {n \in {1, 2, 6, 10, 20} : MinScenes <= n /\ n <= MaxScenes}

\* tasks.py: retry_kwargs={'max_retries': 3, ...}
MaxRetries == 3

Workers == {"w1", "w2"}

None == "None"
NoMessage == <<>>

\* A blank CharField/URLField, and a missing URL in a response: both falsy.
Blank == [scheme |-> "", path |-> <<>>]

(***************************************************************************)
(* The VideoJob row (models.py)                                            *)
(***************************************************************************)
NewJob ==
    [status |-> "pending",
     progress |-> 0,
     error_message |-> NoMessage,
     veo_video_gcs_uri |-> Blank,
     veo_video_url |-> Blank,
     heygen_video_id |-> "",
     heygen_asset_id |-> "",
     final_video_url |-> Blank,
     completed_at |-> None,
     processing_time_seconds |-> None,
     credits_used |-> 0]

Terminal == {"completed", "failed"}

(***************************************************************************)
(* Storage locations and URLs                                              *)
(***************************************************************************)
\* tasks.py:25-26,36: f"{storage_base}scene_{k}/", resolved to the clip in it
SceneUri(k) == [scheme |-> "gs", path |-> <<k>>]

\* tasks.py:44: gs://{bucket}/{product_id or id}/merged/final.mp4
TargetGcs == [scheme |-> "gs", path |-> <<"merged", "final.mp4">>]

\* tasks.py:73: gs://{bucket}/{product_id or id}/final/with_music.mp4
TargetMusicGcs == [scheme |-> "gs", path |-> <<"final", "with_music.mp4">>]

\* The video_url HeyGen reports for the finished avatar video.
HeygenVideoUrl == [scheme |-> "https", path |-> <<"heygen", "video.mp4">>]

\* heygen_service.py:82-98: the public URL of the object, or a signed URL of
\* the same object when the public one is not readable; both are https URLs
\* of the same bucket and key.
MakeFetchableUrl(gcs_uri) == [scheme |-> "https", path |-> gcs_uri.path]

(***************************************************************************)
(* Progress checkpoints (tasks.py)                                         *)
(***************************************************************************)
\* tasks.py:28 (first scene, 20) and tasks.py:38 (scene k+1, 20 + k*10)
SubmitProgress(k) == IF k = 0 THEN 20 ELSE 20 + (k * 10)

(***************************************************************************)
(* Field updates made by process_video_job before each save                *)
(***************************************************************************)
\* tasks.py:17-18
MarkProcessingVeo(j) == [j EXCEPT !.status = "processing_veo", !.progress = 10]

\* tasks.py:32
MarkScene1Polled(j) == [j EXCEPT !.progress = 30]

\* A bug: the status is left as it was when the overlay stage starts.
MarkProcessingHeygen_KeepsStatus(j, gcs_uri, url) ==
    [j EXCEPT !.veo_video_gcs_uri = gcs_uri,
              !.veo_video_url = url,
              !.progress = 60]

\* tasks.py:47-50
MarkProcessingHeygen(j, gcs_uri, url) ==
    [j EXCEPT !.veo_video_gcs_uri = gcs_uri,
              !.veo_video_url = url,
              !.progress = 60,
              !.status = "processing_heygen"]

\* A bug: the asset id is not put on the job before the save.
MarkAssetUploaded_WithoutId(j, asset_id) == [j EXCEPT !.progress = 70]

\* tasks.py:54-55
MarkAssetUploaded(j, asset_id) ==
    [j EXCEPT !.heygen_asset_id = asset_id, !.progress = 70]

\* tasks.py:59-60
MarkOverlaySubmitted(j, video_id) ==
    [j EXCEPT !.heygen_video_id = video_id, !.progress = 80]

\* tasks.py:76: the mixed artifact, made fetchable
UseMixedUrl(j, mixed_gcs_uri) ==
    [j EXCEPT !.final_video_url = MakeFetchableUrl(mixed_gcs_uri)]

\* A bug: the mixed target is used although it was not produced.
UseUnmixedUrl_UsesTarget(j, url) ==
    [j EXCEPT !.final_video_url = MakeFetchableUrl(TargetMusicGcs)]

\* tasks.py:78,80,82: keep the URL returned by poll_video_status
UseUnmixedUrl(j, url) == [j EXCEPT !.final_video_url = url]

\* tasks.py:83-90
MarkCompleted(j) ==
    [j EXCEPT !.status = "completed",
              !.progress = 100,
              !.completed_at = "now",
              !.processing_time_seconds = "elapsed",
              !.credits_used = 1]

\* A bug: the failure handler takes the progress back to 0.
MarkFailed_ResetsProgress(j, e) ==
    [j EXCEPT !.status = "failed", !.error_message = e, !.progress = 0]

\* tasks.py:95-96
MarkFailed(j, e) == [j EXCEPT !.status = "failed", !.error_message = e]

(***************************************************************************)
(* The final status response of HeyGen, as poll_video_status reads it      *)
(* (heygen_service.py:306-327).  data is the "data" member: "absent",      *)
(* "null" or "dict" (then d holds its members); status, error and          *)
(* video_url are the top-level members.  None and Blank stand for a        *)
(* missing or null member.                                                 *)
(***************************************************************************)
NoMembers == [status |-> None, error |-> None, video_url |-> Blank]

NestedResponse(st, err, url) ==
    [data |-> "dict", d |-> [status |-> st, error |-> err, video_url |-> url],
     status |-> None, error |-> None, video_url |-> Blank]

TopLevelResponse(dataMember, st, err, url) ==
    [data |-> dataMember, d |-> NoMembers,
     status |-> st, error |-> err, video_url |-> url]

\* (data.get("data") or {}): the nested members, or none of them
DataOrEmpty(resp) == IF resp.data = "dict" THEN resp.d ELSE NoMembers

\* heygen_service.py:309
StatusVal(resp) ==
    IF DataOrEmpty(resp).status # None THEN DataOrEmpty(resp).status
    ELSE resp.status

\* heygen_service.py:317
FinalUrlOf(resp) ==
    IF DataOrEmpty(resp).video_url # Blank THEN DataOrEmpty(resp).video_url
    ELSE resp.video_url

\* heygen_service.py:326-327: data.get("data", {}).get("error") or
\* "Unknown error"; a null "data" member has no get().
FailedMessage(resp) ==
    CASE resp.data = "null" ->
           <<"'NoneType' object has no attribute 'get'">>
      [] resp.data = "dict" /\ resp.d.error # None ->
           <<"HeyGen video failed: ", resp.d.error>>
      [] OTHER ->
           <<"HeyGen video failed: ", "Unknown error">>

\* heygen_service.py:315-327: what a terminal response makes the poller do
PollResult(resp) ==
    CASE StatusVal(resp) = "completed" /\ FinalUrlOf(resp) # Blank ->
           [raised |-> FALSE, url |-> FinalUrlOf(resp), msg |-> NoMessage]
      [] StatusVal(resp) = "completed" ->
           [raised |-> TRUE, url |-> Blank,
            msg |-> <<"HeyGen final video_url not found in response">>]
      [] OTHER ->
           [raised |-> TRUE, url |-> Blank, msg |-> FailedMessage(resp)]

\* The error detail the remote put in the response, wherever it put it.
RemoteDetail(resp) ==
    IF resp.data = "dict" /\ resp.d.error # None THEN resp.d.error
    ELSE resp.error

\* Terminal status responses the remote can send.
TerminalResponses ==
    {NestedResponse("completed", None, HeygenVideoUrl),
     NestedResponse("completed", None, Blank),
     NestedResponse("failed", "quota exceeded", Blank),
     NestedResponse("failed", None, Blank),
     TopLevelResponse("absent", "completed", None, HeygenVideoUrl),
     TopLevelResponse("absent", "failed", "quota exceeded", Blank),
     TopLevelResponse("null", "failed", "quota exceeded", Blank)}

\* No status response was read (the poller gave up or the request failed).
NoResponse == TopLevelResponse("absent", None, None, Blank)

\* heygen_service.py:358-363: the poll budget is used up
PollTimeoutError ==
    <<"Polling timed out", "Video might still be processing on HeyGen">>

Contains(msg, piece) == \E k \in DOMAIN msg : msg[k] = piece

(***************************************************************************)
(* Exceptions: the text str(e) gives, as its pieces                        *)
(***************************************************************************)
\* django.db.utils.OperationalError / InterfaceError from a query
DbError == <<"OperationalError">>

\* gcp_auth.py:31-37 via veo_service.py:18: no usable credentials
ConstructError == <<"DefaultCredentialsError">>

\* veo_service.py:94
SubmitError == <<"Veo generate_base_video failed: ", "detail">>

\* veo_service.py:267
ScenePollError == <<"Veo operation polling timed out">>

\* heygen_service.py:80: signing needs a private key
SignError == <<"you need a private key to sign credentials">>

\* merge_service.py:22
MergeError ==
    <<"FFmpeg is not installed or not in PATH. ",
      "Install ffmpeg to enable scene merging.">>

\* heygen_service.py:163-165
UploadError == <<"Bad request (400). Response: ", "body">>

\* heygen_service.py:276-279
GenerateError == <<"HeyGen generate failed: ", "400", "body">>

\* django.conf.LazySettings.__getattr__ for a setting settings.py lacks
MissingSettingError == <<"'Settings' object has no attribute 'BG_MUSIC_URLS'">>

(***************************************************************************)
(* Bookkeeping                                                             *)
(***************************************************************************)
NoCalls ==
    [generate_base |-> 0, extend |-> 0, poll_operation |-> 0,
     make_fetchable_url |-> 0, merge |-> 0, upload |-> 0,
     generate_avatar |-> 0, poll_status |-> 0, mix |-> 0]

NewRun ==
    [loaded |-> None, trace |-> <<>>, failed_at |-> None,
     merge_arg |-> <<>>, resp |-> NoResponse,
     mix |-> None, outcome |-> None]

AppendStatus(t, st) ==
    IF t # <<>> /\ t[Len(t)] = st THEN t ELSE Append(t, st)

\* Celery autoretry_for: an escaping database error re-queues the task with
\* retries + 1 unless max_retries is used up (tasks.py:12).
Requeue(q, r) == IF r < MaxRetries THEN [q EXCEPT ![r + 1] = @ + 1] ELSE q

(***************************************************************************)
(* The credential provider (services/gcp_auth.py).  Each thread of the     *)
(* process constructs the provider, as VeoService.__init__ does            *)
(* (veo_service.py:18), and then asks it for access tokens.  A thread      *)
(* switch can fall between any two statements, so each statement that      *)
(* touches the provider is a step of its own.                              *)
(***************************************************************************)
Threads == {"t1", "t2"}

NoThread == "NoThread"

\* Calls of get_access_token made by one thread.
MaxCalls == 2

\* The last minute of the clock.
MaxNow == 2

\* gcp_auth.py:46: timedelta(minutes=2)
RefreshMargin == 2

\* gcp_auth.py:53: timedelta(minutes=10)
DefaultLifetime == 10

\* The life of a granted token that states its expiry; longer than the
\* margin, short enough to run out within the clock.
GrantedLifetime == RefreshMargin + 2

\* gcp_auth.py:25: self._token = None; tokens are numbered from 1
NoToken == 0

\* gcp_auth.py:26: self._expiry = None
NoExpiry == 0 - 1

\* gcp_auth.py:24: self._credentials = None
NoCredentials == [loaded |-> FALSE, token |-> NoToken, expiry |-> NoExpiry]

\* gcp_auth.py:31-37: credentials just loaded hold no token yet
LoadedCredentials == [loaded |-> TRUE, token |-> NoToken, expiry |-> NoExpiry]

\* Lock objects that __init__ can create: one per construction.
Locks == 1..Cardinality(Threads)

NoCall ==
    [n |-> 0, refreshes |-> 0, needed |-> "unknown", ret |-> "none",
     value |-> NoToken, prev |-> "none"]

NoInits == [objects |-> 0, entered |-> 0, failed |-> 0]

\* A bug: the margin itself is not counted as too close to the expiry.
NeedsRefresh_PastMargin(tok, exp, clock) ==
    \/ tok = NoToken
    \/ exp = NoExpiry
    \/ clock + RefreshMargin > exp

\* gcp_auth.py:39-46: _needs_refresh
NeedsRefresh(tok, exp, clock) ==
    \/ tok = NoToken
    \/ exp = NoExpiry
    \/ clock + RefreshMargin >= exp

\* A bug: the lock stays held when the block is left.
Release_KeepsLock(holders, l) == holders

\* gcp_auth.py:60: leaving the with block releases the Lock entered
Release(holders, l) == [holders EXCEPT ![l] = NoThread]

\* The state of a process in which nothing has constructed the provider.
AuthInit ==
    /\ instance = FALSE
    /\ init_lock = NoThread
    /\ initialized = FALSE
    /\ lock_obj = 0
    /\ lock_holder = [l \in Locks |-> NoThread]
    /\ creds = NoCredentials
    /\ token = NoToken
    /\ expiry = NoExpiry
    /\ now = 0
    /\ tpc = [t \in Threads |-> "start"]
    /\ tlock = [t \in Threads |-> 0]
    /\ tcall = [t \in Threads |-> NoCall]
    /\ granted = <<>>
    /\ inits = NoInits

constructVars == <<instance, init_lock, initialized, inits>>
cacheVars == <<creds, token, expiry, granted>>
lockVars == <<lock_obj, lock_holder, tlock>>

\* gcp_auth.py:14: the unlocked test of __new__
NewCheck(t) ==
    /\ tpc[t] = "start"
    /\ tpc' = [tpc EXCEPT ![t] = IF instance THEN "init_check" ELSE "new_lock"]
    /\ UNCHANGED <<constructVars, cacheVars, lockVars, now, tcall>>

\* gcp_auth.py:15: with cls._init_lock
NewLock(t) ==
    /\ tpc[t] = "new_lock"
    /\ init_lock = NoThread
    /\ init_lock' = t
    /\ tpc' = [tpc EXCEPT ![t] = "new_create"]
    /\ UNCHANGED <<instance, initialized, inits, cacheVars, lockVars, now,
                   tcall>>

\* gcp_auth.py:16-18: the locked test, the creation, and the release
NewCreate(t) ==
    /\ tpc[t] = "new_create"
    /\ instance' = TRUE
    /\ inits' = IF instance THEN inits
                ELSE [inits EXCEPT !.objects = @ + 1]
    /\ init_lock' = NoThread
    /\ tpc' = [tpc EXCEPT ![t] = "init_check"]
    /\ UNCHANGED <<initialized, cacheVars, lockVars, now, tcall>>

\* gcp_auth.py:21-22
InitCheck(t) ==
    /\ tpc[t] = "init_check"
    /\ tpc' = [tpc EXCEPT ![t] = IF initialized THEN "ready" ELSE "init_reset"]
    /\ UNCHANGED <<constructVars, cacheVars, lockVars, now, tcall>>

\* gcp_auth.py:23-27: a new Lock, and the credentials and the cache reset
InitReset(t) ==
    /\ tpc[t] = "init_reset"
    /\ lock_obj' = lock_obj + 1
    /\ creds' = NoCredentials
    /\ token' = NoToken
    /\ expiry' = NoExpiry
    /\ inits' = [inits EXCEPT !.entered = @ + 1]
    /\ tpc' = [tpc EXCEPT ![t] = "init_load"]
    /\ UNCHANGED <<instance, init_lock, initialized, lock_holder, tlock,
                   granted, now, tcall>>

\* gcp_auth.py:28 (_load_credentials, 31-37): the credentials are loaded,
\* or none are found and the construction raises
InitLoad(t) ==
    /\ tpc[t] = "init_load"
    /\ \/ /\ creds' = LoadedCredentials
          /\ tpc' = [tpc EXCEPT ![t] = "init_done"]
          /\ UNCHANGED inits
       \/ /\ tpc' = [tpc EXCEPT ![t] = "failed"]
          /\ inits' = [inits EXCEPT !.failed = @ + 1]
          /\ UNCHANGED creds
    /\ UNCHANGED <<instance, init_lock, initialized, token, expiry, granted,
                   lockVars, now, tcall>>

\* gcp_auth.py:29
InitDone(t) ==
    /\ tpc[t] = "init_done"
    /\ initialized' = TRUE
    /\ tpc' = [tpc EXCEPT ![t] = "ready"]
    /\ UNCHANGED <<instance, init_lock, inits, cacheVars, lockVars, now,
                   tcall>>

\* The call ends: the lock entered is released and the caller gets a token
\* (kind "token") or the exception (kind "raised").
EndCall(t, kind, tok) ==
    /\ lock_holder' = Release(lock_holder, tlock[t])
    /\ tcall' = [tcall EXCEPT ![t].ret = kind, ![t].value = tok]
    /\ tpc' = [tpc EXCEPT ![t] = "ready"]
    /\ UNCHANGED <<lock_obj, tlock>>

\* gcp_auth.py:59,65-66: a thread that holds the provider calls
\* get_access_token
Call(t) ==
    /\ tpc[t] = "ready"
    /\ tcall[t].n < MaxCalls
    /\ tcall' = [tcall EXCEPT ![t] =
                   [NoCall EXCEPT !.n = tcall[t].n + 1,
                                  !.prev = tcall[t].ret]]
    /\ tpc' = [tpc EXCEPT ![t] = "acquire"]
    /\ UNCHANGED <<constructVars, cacheVars, lockVars, now>>

\* gcp_auth.py:60: with self._lock, on the Lock object self._lock is now
Acquire(t) ==
    /\ tpc[t] = "acquire"
    /\ lock_holder[lock_obj] = NoThread
    /\ lock_holder' = [lock_holder EXCEPT ![lock_obj] = t]
    /\ tlock' = [tlock EXCEPT ![t] = lock_obj]
    /\ tpc' = [tpc EXCEPT ![t] = "check"]
    /\ UNCHANGED <<constructVars, cacheVars, lock_obj, now, tcall>>

\* gcp_auth.py:61
Check(t) ==
    /\ tpc[t] = "check"
    /\ IF NeedsRefresh(token, expiry, now)
       THEN /\ tpc' = [tpc EXCEPT ![t] = "refresh"]
            /\ tcall' = [tcall EXCEPT ![t].needed = "yes"]
       ELSE /\ tpc' = [tpc EXCEPT ![t] = "return_cached"]
            /\ tcall' = [tcall EXCEPT ![t].needed = "no"]
    /\ UNCHANGED <<constructVars, cacheVars, lockVars, now>>

\* gcp_auth.py:63
ReturnCached(t) ==
    /\ tpc[t] = "return_cached"
    /\ EndCall(t, "token", token)
    /\ UNCHANGED <<constructVars, cacheVars, now>>

\* gcp_auth.py:49: the credentials are refreshed (a new token, with its
\* expiry stated or not), or the refresh raises; without credentials the
\* attribute access raises.
Refresh(t) ==
    /\ tpc[t] = "refresh"
    /\ \/ /\ creds.loaded
          /\ \E exp \in {now + GrantedLifetime, NoExpiry} :
               /\ creds' = [creds EXCEPT !.token = Len(granted) + 1,
                                         !.expiry = exp]
               /\ granted' = Append(granted, [at |-> now, expiry |-> exp])
          /\ tpc' = [tpc EXCEPT ![t] = "store_token"]
          /\ tcall' = [tcall EXCEPT ![t].refreshes = @ + 1]
          /\ UNCHANGED <<token, expiry, lockVars>>
       \/ /\ lock_holder' = Release(lock_holder, tlock[t])
          /\ tcall' = [tcall EXCEPT ![t].refreshes = @ + 1,
                                    ![t].ret = "raised",
                                    ![t].value = NoToken]
          /\ tpc' = [tpc EXCEPT ![t] = "ready"]
          /\ UNCHANGED <<cacheVars, lock_obj, tlock>>
    /\ UNCHANGED <<constructVars, now>>

\* gcp_auth.py:50
StoreToken(t) ==
    /\ tpc[t] = "store_token"
    /\ IF creds.loaded
       THEN /\ token' = creds.token
            /\ tpc' = [tpc EXCEPT ![t] = "store_expiry"]
            /\ UNCHANGED <<lockVars, tcall>>
       ELSE /\ EndCall(t, "raised", NoToken)
            /\ UNCHANGED token
    /\ UNCHANGED <<constructVars, creds, expiry, granted, now>>

\* gcp_auth.py:51-56
StoreExpiry(t) ==
    /\ tpc[t] = "store_expiry"
    /\ expiry' = IF creds.expiry = NoExpiry THEN now + DefaultLifetime
                 ELSE creds.expiry
    /\ tpc' = [tpc EXCEPT ![t] = "return_fresh"]
    /\ UNCHANGED <<constructVars, creds, token, granted, lockVars, now, tcall>>

\* gcp_auth.py:57,62
ReturnFresh(t) ==
    /\ tpc[t] = "return_fresh"
    /\ EndCall(t, "token", token)
    /\ UNCHANGED <<constructVars, cacheVars, now>>

\* A minute passes.
Tick ==
    /\ now < MaxNow
    /\ now' = now + 1
    /\ UNCHANGED <<constructVars, cacheVars, lockVars, tpc, tcall>>

NextAuth ==
    /\ \/ Tick
       \/ \E t \in Threads :
            \/ NewCheck(t)
            \/ NewLock(t)
            \/ NewCreate(t)
            \/ InitCheck(t)
            \/ InitReset(t)
            \/ InitLoad(t)
            \/ InitDone(t)
            \/ Call(t)
            \/ Acquire(t)
            \/ Check(t)
            \/ ReturnCached(t)
            \/ Refresh(t)
            \/ StoreToken(t)
            \/ StoreExpiry(t)
            \/ ReturnFresh(t)
    /\ UNCHANGED <<pipelineVars, clientVars, veoVars, mergeVars, intakeVars, jobsVars>>

(***************************************************************************)
(* The HeyGen client (services/heygen_service.py): upload_video_asset,     *)
(* generate_avatar_video and poll_video_status, each called with the       *)
(* remote answering in any of the ways the code tells apart.               *)
(***************************************************************************)
\* Calls of the client made one after another.
MaxOps == 2

\* The largest max_retries poll_video_status is called with.
MaxPollAttempts == 3

\* heygen_service.py:223: for attempt in range(3)
GenerateAttempts == 3

\* heygen_service.py:253,267: 2 * (attempt + 1)
BackoffUnit == 2

\* A key that the JSON object does not have.
Absent == "absent"

Body == "body"

NoResult == [kind |-> "none", type |-> None, msg |-> NoMessage, value |-> ""]

Returned(v) ==
    [kind |-> "returned", type |-> None, msg |-> NoMessage, value |-> v]

Raised(type, msg) ==
    [kind |-> "raised", type |-> type, msg |-> msg, value |-> ""]

(***************************************************************************)
(* upload_video_asset                                                      *)
(***************************************************************************)
\* The JSON body of a 200 response: the top-level keys, the "data" member
\* ("absent", "null" or "dict", then d holds its keys) and data's "asset"
\* member ("absent" or "dict", then a holds its keys).
NoIds ==
    [dict |-> TRUE, asset_id |-> Absent, video_asset_id |-> Absent,
     data |-> Absent,
     d |-> [asset_id |-> Absent, video_asset_id |-> Absent, id |-> Absent],
     asset |-> Absent,
     a |-> [asset_id |-> Absent, id |-> Absent]]

UploadBodies ==
    {[NoIds EXCEPT !.asset_id = "A1"],
     [NoIds EXCEPT !.video_asset_id = "A2"],
     [NoIds EXCEPT !.data = "dict", !.d.asset_id = "A3"],
     [NoIds EXCEPT !.data = "dict", !.d.video_asset_id = "A4"],
     [NoIds EXCEPT !.data = "dict", !.d.id = "A5"],
     [NoIds EXCEPT !.data = "dict", !.asset = "dict", !.a.asset_id = "A6"],
     [NoIds EXCEPT !.data = "dict", !.asset = "dict", !.a.id = "A7"],
     [NoIds EXCEPT !.asset_id = None, !.data = "dict", !.d.id = "A8"],
     [NoIds EXCEPT !.data = "null"],
     [NoIds EXCEPT !.data = "dict", !.asset = "dict"],
     [NoIds EXCEPT !.dict = FALSE],
     NoIds}

\* a.get("asset_id") or a.get("id"): the first that is there and not empty
FirstOf(x, y) == IF x \notin {Absent, None, ""} THEN x
                 ELSE IF y = Absent THEN None ELSE y

\* heygen_service.py:31-58: _extract_asset_id
ExtractAssetId(data) ==
    IF ~data.dict THEN None
    ELSE IF data.asset_id # Absent THEN data.asset_id
    ELSE IF data.video_asset_id # Absent THEN data.video_asset_id
    ELSE IF data.data # "dict" THEN None
    ELSE IF data.d.asset_id # Absent THEN data.d.asset_id
    ELSE IF data.d.video_asset_id # Absent THEN data.d.video_asset_id
    ELSE IF data.d.id # Absent THEN data.d.id
    ELSE IF data.asset = "dict" THEN FirstOf(data.a.asset_id, data.a.id)
    ELSE None

\* The ids a response body carries in one of the places the client reads.
IdsIn(data) ==
    IF ~data.dict THEN {}
    ELSE ({data.asset_id, data.video_asset_id}
            \cup (IF data.data = "dict"
                  THEN {data.d.asset_id, data.d.video_asset_id, data.d.id}
                  ELSE {})
            \cup (IF data.data = "dict" /\ data.asset = "dict"
                  THEN {data.a.asset_id, data.a.id}
                  ELSE {}))
         \ {Absent, None, ""}

UploadCodes == {200, 400, 401, 500}

\* What the remote does with the upload: it answers with a status code and
\* a body, or the request fails on the way.
UploadResponses ==
    [kind : {"response"}, code : UploadCodes \ {200}, data : {NoIds}]
      \cup [kind : {"response"}, code : {200}, data : UploadBodies]
      \cup {[kind |-> "request_error", code |-> 0, data |-> NoIds]}

\* heygen_service.py:143-175: the outcome of the upload request
UploadOutcome(r) ==
    IF r.kind = "request_error"
    THEN Raised("RuntimeError", <<"Request failed: ", "connection error">>)
    ELSE CASE r.code = 200 ->
                IF ExtractAssetId(r.data) \in {None, ""}
                THEN Raised("RuntimeError",
                            <<"HeyGen upload returned success but no asset_id: ",
                              Body>>)
                ELSE Returned(ExtractAssetId(r.data))
           [] r.code = 401 ->
                Raised("RuntimeError",
                       <<"Authentication failed (401). ",
                         "Please check your HEYGEN_API_KEY. ",
                         "Response: ", Body>>)
           [] r.code = 400 ->
                Raised("RuntimeError",
                       <<"Bad request (400). Response: ", Body>>)
           [] OTHER ->
                Raised("RuntimeError",
                       <<"Upload failed with status ", ToString(r.code), ": ",
                         Body>>)

\* The class of a response that is not a success, as the taxonomy of the
\* upload has it.
CodeClass(code) ==
    CASE code = 401 -> "401"
      [] code = 400 -> "400"
      [] OTHER -> "other"

(***************************************************************************)
(* generate_avatar_video                                                   *)
(***************************************************************************)
NoError == [kind |-> "none", code |-> 0]

\* What one submission meets: a 2xx answer with or without a video id, an
\* error status (raise_for_status), or a network-level error.
GenerateResponses ==
    {[kind |-> "ok", code |-> 200], [kind |-> "no_id", code |-> 200],
     [kind |-> "status", code |-> 502], [kind |-> "status", code |-> 429],
     [kind |-> "status", code |-> 400], [kind |-> "status", code |-> 503],
     [kind |-> "network", code |-> 0]}

\* heygen_service.py:252
GenerateTransient(r) == r.kind = "status" /\ r.code \in {502, 429}

\* A bug: the same wait before every attempt.
Backoff_Constant(k) == BackoffUnit

\* heygen_service.py:253,267: the wait after failed attempt k (0-based)
Backoff(k) == BackoffUnit * (k + 1)

\* The text an error shows in the message of heygen_service.py:276-277
ErrorText(e) ==
    IF e.kind = "status" THEN <<ToString(e.code), Body>>
    ELSE <<"network error">>

\* heygen_service.py:270-279
GenerateFailure(e) ==
    IF e.kind = "none"
    THEN Raised("RuntimeError", <<"HeyGen generate failed with unknown error">>)
    ELSE Raised("RuntimeError", <<"HeyGen generate failed: ">> \o ErrorText(e))

(***************************************************************************)
(* poll_video_status                                                       *)
(***************************************************************************)
\* A status response that reports the video still in work.
ProcessingResponse == NestedResponse("processing", None, Blank)

\* What one status request meets: a JSON answer, a read timeout, an error
\* status, or another network-level error.
PollResponses ==
    [kind : {"json"}, code : {200},
     resp : TerminalResponses \cup {ProcessingResponse}]
      \cup [kind : {"status"}, code : {502, 503, 429, 500}, resp : {NoResponse}]
      \cup [kind : {"read_timeout", "network"}, code : {0}, resp : {NoResponse}]

\* heygen_service.py:315,325: the response ends the polling
IsTerminal(r) ==
    r.kind = "json" /\ StatusVal(r.resp) \in {"completed", "failed"}

\* A bug: 503 is not taken as temporary.
PollTransient_Without503(r) == r.kind = "status" /\ r.code \in {502, 429}

\* heygen_service.py:345
PollTransient(r) == r.kind = "status" /\ r.code \in {502, 503, 429}

\* heygen_service.py:285: interval, the wait between two status requests
PollInterval == 10

\* A bug: a read timeout is not caught and ends the polling.
PollContinues_ReadTimeoutFatal(r) ==
    \/ r.kind = "json" /\ ~IsTerminal(r)
    \/ r.kind = "network"
    \/ PollTransient(r)

\* heygen_service.py:329-336, 345-348 and 352-355: the pass ends in
\* time.sleep(interval) and the loop goes on
PollContinues(r) ==
    \/ r.kind = "json" /\ ~IsTerminal(r)
    \/ r.kind \in {"read_timeout", "network"}
    \/ PollTransient(r)

\* The class of the exception the failed-status branch ends with
\* (heygen_service.py:326-327): None has no get().
FailedType(resp) ==
    IF resp.data = "null" THEN "AttributeError" ELSE "RuntimeError"

\* heygen_service.py:315-327 and 338-350: what ends the polling at once
PollEnd(r) ==
    IF r.kind = "status"
    THEN Raised("RuntimeError",
                <<"Status check failed with ", ToString(r.code), ": ", Body>>)
    ELSE IF r.kind # "json"
    THEN Raised("RequestError", <<"network error">>)  \* were it not caught
    ELSE IF PollResult(r.resp).raised
    THEN Raised(IF StatusVal(r.resp) = "failed" THEN FailedType(r.resp)
                ELSE "RuntimeError",
                PollResult(r.resp).msg)
    ELSE Returned(PollResult(r.resp).url)

(***************************************************************************)
(* The calls                                                               *)
(***************************************************************************)
ClientInit ==
    /\ op = "idle"
    /\ ops = 0
    /\ attempt = 0
    /\ max_retries = 0
    /\ last_error = NoError
    /\ log = <<>>
    /\ sleeps = <<>>
    /\ result = NoResult
    /\ seen = {}

loopVars == <<attempt, max_retries, last_error, sleeps>>

\* No call is in progress: none was made yet, or the last one is over.
AtRest == {"idle", "uploaded", "generated", "polled"}

\* heygen_service.py:100-175: upload_video_asset, from the download of the
\* video to the classification of the answer
UploadVideoAsset ==
    /\ op \in AtRest
    /\ ops < MaxOps
    /\ ops' = ops + 1
    /\ op' = "uploaded"
    /\ \/ /\ result' = Raised("HTTPStatusError", <<"download failed">>)
          /\ log' = <<>>
          /\ UNCHANGED seen
       \/ /\ result' = Raised("RuntimeError",
                              <<"HEYGEN_API_KEY is not set in Django settings">>)
          /\ log' = <<>>
          /\ UNCHANGED seen
       \/ \E r \in UploadResponses :
            /\ result' = UploadOutcome(r)
            /\ log' = <<r>>
            /\ seen' = IF r.kind = "response" /\ r.code # 200
                       THEN seen \cup {[class |-> CodeClass(r.code),
                                        type |-> UploadOutcome(r).type]}
                       ELSE seen
    /\ UNCHANGED loopVars

\* heygen_service.py:177-221: generate_avatar_video is called
StartGenerate ==
    /\ op \in AtRest
    /\ ops < MaxOps
    /\ ops' = ops + 1
    /\ op' = "generate"
    /\ attempt' = 0
    /\ last_error' = NoError
    /\ log' = <<>>
    /\ sleeps' = <<>>
    /\ result' = NoResult
    /\ UNCHANGED <<max_retries, seen>>

\* heygen_service.py:223-268: one pass of the loop
GenerateAttempt ==
    /\ op = "generate"
    /\ attempt < GenerateAttempts
    /\ \E r \in GenerateResponses :
         /\ log' = Append(log, r)
         /\ CASE r.kind = "ok" ->
                   /\ result' = Returned("video")
                   /\ op' = "generated"
                   /\ UNCHANGED <<attempt, last_error, sleeps>>
              [] r.kind = "no_id" ->
                   /\ result' = Raised("RuntimeError",
                                       <<"No video_id in response">>)
                   /\ op' = "generated"
                   /\ UNCHANGED <<attempt, last_error, sleeps>>
              [] GenerateTransient(r) ->
                   /\ sleeps' = Append(sleeps, Backoff(attempt))
                   /\ attempt' = attempt + 1
                   /\ UNCHANGED <<op, last_error, result>>
              [] r.kind = "status" /\ ~GenerateTransient(r) ->
                   /\ last_error' = [kind |-> "status", code |-> r.code]
                   /\ op' = "generate_end"
                   /\ UNCHANGED <<attempt, sleeps, result>>
              [] r.kind = "network" ->
                   /\ last_error' = [kind |-> "network", code |-> 0]
                   /\ sleeps' = Append(sleeps, Backoff(attempt))
                   /\ attempt' = attempt + 1
                   /\ UNCHANGED <<op, result>>
    /\ UNCHANGED <<ops, max_retries, seen>>

\* heygen_service.py:270-279: the loop is over without a video id
GenerateGiveUp ==
    /\ \/ op = "generate" /\ attempt = GenerateAttempts
       \/ op = "generate_end"
    /\ result' = GenerateFailure(last_error)
    /\ op' = "generated"
    /\ UNCHANGED <<ops, loopVars, log, seen>>

\* heygen_service.py:281-294: poll_video_status is called
StartPoll ==
    /\ op \in AtRest
    /\ ops < MaxOps
    /\ ops' = ops + 1
    /\ op' = "poll"
    /\ attempt' = 0
    /\ max_retries' \in 1..MaxPollAttempts
    /\ last_error' = NoError
    /\ log' = <<>>
    /\ sleeps' = <<>>
    /\ result' = NoResult
    /\ UNCHANGED seen

\* heygen_service.py:296-355: one pass of the loop
PollAttempt ==
    /\ op = "poll"
    /\ attempt < max_retries
    /\ \E r \in PollResponses :
         /\ log' = Append(log, r)
         /\ IF PollContinues(r)
            THEN /\ attempt' = attempt + 1
                 /\ sleeps' = Append(sleeps, PollInterval)
                 /\ UNCHANGED <<op, result>>
            ELSE /\ result' = PollEnd(r)
                 /\ op' = "polled"
                 /\ UNCHANGED <<attempt, sleeps>>
    /\ UNCHANGED <<ops, max_retries, last_error, seen>>

\* heygen_service.py:357-363: the poll budget is used up
PollGiveUp ==
    /\ op = "poll"
    /\ attempt = max_retries
    /\ result' = Raised("TimeoutError", PollTimeoutError)
    /\ op' = "polled"
    /\ UNCHANGED <<ops, loopVars, log, seen>>

NextClient ==
    /\ \/ UploadVideoAsset
       \/ StartGenerate
       \/ GenerateAttempt
       \/ GenerateGiveUp
       \/ StartPoll
       \/ PollAttempt
       \/ PollGiveUp
    /\ UNCHANGED <<pipelineVars, authVars, veoVars, mergeVars, intakeVars, jobsVars>>

(***************************************************************************)
(* The Veo client (services/veo_service.py): generate_base_video and       *)
(* poll_operation, each called on its own with every answer the backend    *)
(* and the storage can give.  veo_log records, in order, what the call     *)
(* did: status requests, submissions, storage probes and waits.            *)
(***************************************************************************)
\* The most rounds a modelled call of poll_operation is given
\* (max_retries; 120 by default, veo_service.py:182).
MaxVeoRounds == 2

\* One thing the call did: a status request ("get") to a URL, a submission
\* ("post") of a body, a probe of the storage, a wait, or the start of a
\* round of the polling loop.
NoBody == [json |-> FALSE, message |-> Absent, status |-> Absent]

Event(ev, what, out) ==
    [ev |-> ev, what |-> what, out |-> out, body |-> NoBody]

\* What a status request can meet: a JSON answer, an error status, or no
\* connection (httpx.RequestError).
GetOutcomes == {"json", "401", "403", "404", "503", "unreachable"}

\* A bug: a 401 is passed over like any other error status.
GetFatal_Ignores401(out) == out = "unreachable"

\* veo_service.py:205-206, 210-214: the request ends poll_operation with
\* an exception: a 401 raises (213-214), and httpx.RequestError is not
\* caught by the except clause of line 210.
GetFatal(out) == out \in {"401", "unreachable"}

\* veo_service.py:203-215: the request ends the walk over the URLs: break
\* on an answer (209) or an exception.  Any other status goes to the next
\* URL (215).
GetEnds(out) == out = "json" \/ GetFatal(out)

\* veo_service.py:203-215: the requests of one round over n URLs
Gets(n) ==
    {g \in UNION {[1..m -> GetOutcomes] : m \in 1..n} :
        /\ \A k \in 1..(Len(g) - 1) : ~GetEnds(g[k])
        /\ Len(g) < n => GetEnds(g[Len(g)])}

\* The operation as the status answer describes it: still running, done
\* with the clip among videos or predictions, done with neither, or done
\* with an error.
Operations ==
    {"running", "done_videos", "done_predictions", "done_empty", "done_error"}

\* veo_service.py:226-237: the location the answer itself gives
ResponseUri(data) ==
    IF data \in {"done_videos", "done_predictions"} THEN "response" ELSE None

\* A bug: a round that got no answer does not look at the storage.
RoundProbes_OnlyWithAnswer(expected, last, data) ==
    IF ~expected \/ last # "json" THEN <<>>
    ELSE IF data = "running" THEN <<"public", "list">>
    ELSE <<"gcs", "public", "list">>

\* veo_service.py:216-223, 238-247, 249-255: the storage probes a round
\* makes, in order, given the last request's outcome and the answer
RoundProbes(expected, last, data) ==
    IF ~expected THEN <<>>
    ELSE IF last # "json" \/ data = "running" THEN <<"public", "list">>
    ELSE <<"gcs", "public", "list">>

\* veo_service.py:257-266: the probes made when the rounds are used up
FinalProbes(expected) ==
    IF expected THEN <<"gcs", "public", "list">> ELSE <<>>

\* The probes made when probe number f is the first to find a clip (f = 0:
\* none finds one): each returns at once when it finds one.
ProbeEvents(probes, f) ==
    [k \in 1..(IF f = 0 THEN Len(probes) ELSE f) |->
        Event("probe", probes[k], IF k = f THEN "found" ELSE "none")]

GetEvents(g) ==
    [k \in 1..Len(g) |->
        Event("get", IF k = 1 THEN "url1" ELSE "url2", g[k])]

\* veo_service.py:214
VeoAuthError == <<"Veo poll_operation authentication failed: ", Body>>

\* httpx.ConnectError and the like, as they leave the client
VeoNetworkError == <<"All connection attempts failed">>

\* The error body of a rejected submission, as veo_service.py:72-78 reads
\* it: not JSON, or JSON whose error member has a message (which mentions
\* "allowlisted" or not) and a status.
RejectionBodies ==
    [json : {TRUE}, message : {"allowlisted", "other", Absent},
     status : {"FAILED_PRECONDITION", "INVALID_ARGUMENT", Absent}]
      \cup {NoBody}

\* A bug: every rejection is answered with the text-only request.
IsPolicyRejection_Always(body) == TRUE

\* veo_service.py:77-79
IsPolicyRejection(body) ==
    body.json /\ (body.message = "allowlisted"
                    \/ body.status = "FAILED_PRECONDITION")

\* What a submission can meet
PostOutcomes ==
    [kind : {"ok", "unreachable"}, body : {NoBody}]
      \cup [kind : {"status"}, body : RejectionBodies]

PostEvent(what, p) ==
    [ev |-> "post", what |-> what, out |-> p.kind, body |-> p.body]

\* veo_service.py:213-214, and the exception httpx raises by itself
GetError(out) ==
    IF out = "401" THEN Raised("RuntimeError", VeoAuthError)
    ELSE Raised("ConnectError", VeoNetworkError)

\* The durations a scene of scenes_data may ask for (serializers.py)
SceneDurations == {4, 8}

\* veo_service.py:57-63 and 82-88: "parameters" of both bodies of
\* generate_base_video, for a scene that asks for the duration asked
BaseParameters(asked) ==
    [durationSeconds |-> 8, sampleCount |-> 1, resolution |-> "720p",
     aspectRatio |-> "9:16"]

\* veo_service.py:104-109: "parameters" of the body of extend_video
ExtendParameters(asked) ==
    [durationSeconds |-> 8, sampleCount |-> 1, resolution |-> "720p",
     aspectRatio |-> Absent]

\* veo_service.py:118
ExtendError == <<"Veo extend_video failed: ", "detail">>

VeoInit ==
    /\ veo_asked = 8
    /\ veo_params = <<>>
    /\ veo_op = "idle"
    /\ veo_ops = 0
    /\ veo_urls = 1
    /\ veo_expected = FALSE
    /\ veo_max = 0
    /\ veo_round = 0
    /\ veo_log = <<>>
    /\ veo_result = NoResult

VeoAtRest == {"idle", "submitted", "extended", "polled"}

pollArgs == <<veo_urls, veo_expected, veo_max>>

\* veo_service.py:43-94: generate_base_video, from the fetch of the image
\* to its return or raise
GenerateBaseVideo ==
    /\ veo_op \in VeoAtRest
    /\ veo_ops < MaxOps
    /\ veo_ops' = veo_ops + 1
    /\ veo_op' = "submitted"
    /\ veo_asked' \in SceneDurations
    /\ \/ /\ veo_log' = <<Event("fetch", "image", "error")>>
          /\ veo_result' = Raised("HTTPStatusError", <<"image fetch failed">>)
       \/ \E p1 \in PostOutcomes :
            LET fetched == <<Event("fetch", "image", "ok"),
                             PostEvent("image", p1)>>
            IN  IF p1.kind = "ok"
                THEN /\ veo_log' = fetched
                     /\ veo_result' = Returned("operation")
                ELSE IF p1.kind = "unreachable"
                THEN /\ veo_log' = fetched
                     /\ veo_result' = Raised("ConnectError", VeoNetworkError)
                ELSE IF IsPolicyRejection(p1.body)
                THEN \E p2 \in {"ok", "status", "unreachable"} :
                       /\ veo_log' = Append(fetched,
                                            Event("post", "text", p2))
                       /\ veo_result' =
                            IF p2 = "ok" THEN Returned("operation")
                            ELSE IF p2 = "status"
                            THEN Raised("HTTPStatusError", <<"rejected">>)
                            ELSE Raised("ConnectError", VeoNetworkError)
                ELSE /\ veo_log' = fetched
                     /\ veo_result' = Raised("RuntimeError", SubmitError)
    /\ veo_params' =
         [k \in 1..Len(SelectSeq(veo_log', LAMBDA e : e.ev = "post")) |->
             BaseParameters(veo_asked')]
    /\ UNCHANGED <<pollArgs, veo_round>>

\* veo_service.py:182-197: poll_operation is called
StartPollOperation ==
    /\ veo_op \in VeoAtRest
    /\ veo_ops < MaxOps
    /\ veo_ops' = veo_ops + 1
    /\ veo_op' = "poll"
    /\ veo_urls' \in {1, 2}
    /\ veo_expected' \in BOOLEAN
    /\ veo_max' \in 1..MaxVeoRounds
    /\ veo_round' = 0
    /\ veo_log' = <<>>
    /\ veo_result' = NoResult
    /\ veo_params' = <<>>
    /\ UNCHANGED veo_asked

\* veo_service.py:96-118: extend_video
ExtendVideo ==
    /\ veo_op \in VeoAtRest
    /\ veo_ops < MaxOps
    /\ veo_ops' = veo_ops + 1
    /\ veo_op' = "extended"
    /\ veo_asked' \in SceneDurations
    /\ veo_params' = <<ExtendParameters(veo_asked')>>
    /\ \E p \in PostOutcomes :
         /\ veo_log' = <<PostEvent("video", p)>>
         /\ veo_result' =
              IF p.kind = "ok" THEN Returned("operation")
              ELSE IF p.kind = "status"
              THEN Raised("RuntimeError", ExtendError)
              ELSE Raised("ConnectError", VeoNetworkError)
    /\ UNCHANGED <<pollArgs, veo_round>>

\* veo_service.py:198-256: one round of the polling loop
PollRound ==
    /\ veo_op = "poll"
    /\ veo_round < veo_max
    /\ \E g \in Gets(veo_urls), data \in Operations :
         LET last == g[Len(g)]
             asked == Append(veo_log, Event("round", "", "")) \o GetEvents(g)
                        \o IF last = "json"
                           THEN <<Event("answer", "", data)>> ELSE <<>>
             probes == RoundProbes(veo_expected, last, data)
         IN  /\ last # "json" => data = "running"
             /\ IF GetFatal(last)
                THEN /\ veo_log' = asked
                     /\ veo_result' = GetError(last)
                     /\ veo_op' = "polled"
                     /\ UNCHANGED veo_round
                ELSE IF last = "json" /\ ResponseUri(data) # None
                THEN /\ veo_log' = asked
                     /\ veo_result' = Returned(ResponseUri(data))
                     /\ veo_op' = "polled"
                     /\ UNCHANGED veo_round
                ELSE \E f \in 0..Len(probes) :
                       IF f > 0
                       THEN /\ veo_log' = asked \o ProbeEvents(probes, f)
                            /\ veo_result' = Returned(probes[f])
                            /\ veo_op' = "polled"
                            /\ UNCHANGED veo_round
                       ELSE /\ veo_log' =
                                 Append(asked \o ProbeEvents(probes, 0),
                                        Event("sleep", "", ""))
                            /\ veo_round' = veo_round + 1
                            /\ UNCHANGED <<veo_op, veo_result>>
    /\ UNCHANGED <<veo_ops, pollArgs, veo_asked, veo_params>>

\* veo_service.py:257-267: the rounds are used up
PollOperationGiveUp ==
    /\ veo_op = "poll"
    /\ veo_round = veo_max
    /\ \E f \in 0..Len(FinalProbes(veo_expected)) :
         /\ veo_log' = veo_log \o ProbeEvents(FinalProbes(veo_expected), f)
         /\ veo_result' =
              IF f > 0 THEN Returned(FinalProbes(veo_expected)[f])
              ELSE Raised("TimeoutError", ScenePollError)
    /\ veo_op' = "polled"
    /\ UNCHANGED <<veo_ops, pollArgs, veo_round, veo_asked, veo_params>>

NextVeo ==
    /\ \/ GenerateBaseVideo
       \/ StartPollOperation
       \/ ExtendVideo
       \/ PollRound
       \/ PollOperationGiveUp
    /\ UNCHANGED <<pipelineVars, authVars, clientVars, mergeVars, intakeVars, jobsVars>>

(***************************************************************************)
(* The merge of the scene clips (services/merge_service.py):               *)
(* merge_scene_urls_to_gcs, step by step, with the temporary files it      *)
(* makes.  A clip is named by its content, so that the order of the        *)
(* contents can be followed from the URLs to the uploaded object.          *)
(***************************************************************************)
\* The most clips a modelled call merges (the task passes 1..20).
MaxClips == 3

\* Distinguishable clip contents
ClipContents == {"A", "B", "C"}

\* tempfile.mkstemp gives every file of the call a name of its own
ClipPath(k) == [kind |-> "clip", n |-> k]
ListPath == [kind |-> "list", n |-> 0]
OutPath == [kind |-> "out", n |-> 0]

\* A bug: the list names the files last to first.
ListFile_Reversed(paths) ==
    [k \in 1..Len(paths) |-> paths[Len(paths) + 1 - k]]

\* merge_service.py:25-27: one line "file '<p>'" per path, in order
ListFile(paths) == paths

\* merge_service.py:30-35: the concat demuxer with c='copy' writes the
\* streams of the listed files one after the other, in the order listed
Concat(lines, contents) == [k \in 1..Len(lines) |-> contents[lines[k].n]]

\* merge_service.py:14: raise_for_status of the download
DownloadError == <<"Client error '404 Not Found' for url">>

\* ffmpeg.Error of merge_service.py:34
ConcatError == <<"ffmpeg error (see stderr output for detail)">>

\* google.cloud exceptions of merge_service.py:48-51
StorageError == <<"403 POST https://storage.googleapis.com/upload">>

MergeInit ==
    /\ merge_op = "idle"
    /\ merge_ops = 0
    /\ clips = <<>>
    /\ temp_paths = <<>>
    /\ downloaded = <<>>
    /\ files = {}
    /\ list_file = <<>>
    /\ merged = <<>>
    /\ uploaded = <<>>
    /\ merge_result = NoResult

MergeOver == {"idle", "returned", "raised"}

\* merge_service.py:54: merge_scene_urls_to_gcs is called.  files counts
\* the temporary files of this call only.
StartMerge ==
    /\ merge_op \in MergeOver
    /\ merge_ops < MaxOps
    /\ merge_ops' = merge_ops + 1
    /\ merge_op' = "download"
    /\ clips' \in UNION {[1..n -> ClipContents] : n \in 1..MaxClips}
    /\ temp_paths' = <<>>
    /\ downloaded' = <<>>
    /\ files' = {}
    /\ list_file' = <<>>
    /\ merged' = <<>>
    /\ uploaded' = <<>>
    /\ merge_result' = NoResult

\* merge_service.py:55 and 10-18: the next clip is downloaded to a new
\* temporary file; a failed request raises after mkstemp has made the file
DownloadToTemp ==
    /\ merge_op = "download"
    /\ Len(temp_paths) < Len(clips)
    /\ LET k == Len(temp_paths) + 1
       IN  /\ files' = files \cup {ClipPath(k)}
           /\ \/ /\ temp_paths' = Append(temp_paths, ClipPath(k))
                 /\ downloaded' = Append(downloaded, clips[k])
                 /\ UNCHANGED <<merge_op, merge_result>>
              \/ /\ merge_op' = "raised"
                 /\ merge_result' = Raised("HTTPStatusError", DownloadError)
                 /\ UNCHANGED <<temp_paths, downloaded>>
    /\ UNCHANGED <<merge_ops, clips, list_file, merged, uploaded>>

\* merge_service.py:56 and 20-42: _concat_with_ffmpeg
ConcatWithFfmpeg ==
    /\ merge_op = "download"
    /\ Len(temp_paths) = Len(clips)
    /\ \/ /\ merge_op' = "raised"            \* lines 21-22
          /\ merge_result' = Raised("RuntimeError", MergeError)
          /\ UNCHANGED <<files, list_file, merged>>
       \/ /\ list_file' = ListFile(temp_paths)  \* lines 23-35, run fails
          /\ files' = files \cup {ListPath, OutPath}
          /\ merge_op' = "raised"
          /\ merge_result' = Raised("Error", ConcatError)
          /\ UNCHANGED merged
       \/ /\ list_file' = ListFile(temp_paths)  \* lines 23-42
          /\ merged' = Concat(ListFile(temp_paths), downloaded)
          /\ files' = ((files \cup {ListPath, OutPath}) \ {ListPath})
                         \ {temp_paths[k] : k \in DOMAIN temp_paths}
          /\ merge_op' = "upload"
          /\ UNCHANGED merge_result
    /\ UNCHANGED <<merge_ops, clips, temp_paths, downloaded, uploaded>>

\* merge_service.py:57 and 44-52: _upload_to_gcs
UploadToGcs ==
    /\ merge_op = "upload"
    /\ \/ /\ uploaded' = merged
          /\ merge_op' = "returned"
          /\ merge_result' = Returned("target_gcs_uri")
       \/ /\ merge_op' = "raised"
          /\ merge_result' = Raised("GoogleCloudError", StorageError)
          /\ UNCHANGED uploaded
    /\ UNCHANGED <<merge_ops, clips, temp_paths, downloaded, files,
                   list_file, merged>>

NextMerge ==
    /\ \/ StartMerge
       \/ DownloadToTemp
       \/ ConcatWithFfmpeg
       \/ UploadToGcs
    /\ UNCHANGED <<pipelineVars, authVars, clientVars, veoVars, intakeVars, jobsVars>>

(***************************************************************************)
(* The intake: VideoGenerationViewSet.generate of views.py:56-94. Requests *)
(* are handled concurrently, one handler each; every handler creates its   *)
(* own job, checks the broker, hands the job to the queue or to an inline  *)
(* thread and answers 202.                                                 *)
(***************************************************************************)
MaxRequests == 2

Requests == 1..MaxRequests

\* settings.py:60: RUN_TASK_INLINE is read from the environment.
InlineSettings == {"True", "False"}

\* redis ping of views.py:78-79: it answers, or raises.
PingOutcomes == {"pong", "raised"}

\* threading.Thread(...).start() of views.py:84 and 88: the thread runs
\* process_video_job.apply, or start raises RuntimeError (no thread can be
\* started).
ThreadOutcomes == {"started", "raised"}

\* process_video_job.apply_async of views.py:86: the message is published and
\* the call returns; the call raises and nothing was published; the call
\* raises although the broker took the message (the connection is lost
\* between the broker's LPUSH and its reply).
EnqueueOutcomes == {"published", "raised", "raised_published"}

\* views.py:82
UseInline(setting, ok) == setting = "True" \/ ~ok

IntakeInit ==
    /\ run_task_inline = "unread"
    /\ req_pc = [r \in Requests |-> "idle"]
    /\ broker_ok = [r \in Requests |-> TRUE]
    /\ created = [r \in Requests |-> "none"]
    /\ published = [r \in Requests |-> 0]
    /\ threads = [r \in Requests |-> 0]
    /\ responses = [r \in Requests |-> "none"]

\* settings.py:60
LoadSettings ==
    /\ run_task_inline = "unread"
    /\ run_task_inline' \in InlineSettings
    /\ UNCHANGED <<req_pc, broker_ok, created, published, threads, responses>>

\* views.py:57-73: the request is valid and the job is created.
CreateJob(r) ==
    /\ run_task_inline # "unread"
    /\ req_pc[r] = "idle"
    /\ created' = [created EXCEPT ![r] = "pending"]
    /\ req_pc' = [req_pc EXCEPT ![r] = "check"]
    /\ UNCHANGED <<run_task_inline, broker_ok, published, threads, responses>>

\* views.py:75-81
BrokerCheck(r) ==
    /\ req_pc[r] = "check"
    /\ \E out \in PingOutcomes :
         broker_ok' = [broker_ok EXCEPT ![r] = (out = "pong")]
    /\ req_pc' = [req_pc EXCEPT ![r] = "dispatch"]
    /\ UNCHANGED <<run_task_inline, created, published, threads, responses>>

\* views.py:82-86: an exception of either branch leaves the try block for the
\* handler of line 87.
Dispatch(r) ==
    /\ req_pc[r] = "dispatch"
    /\ IF UseInline(run_task_inline, broker_ok[r])
       THEN \E out \in ThreadOutcomes :
               /\ threads' =
                    [threads EXCEPT ![r] = @ + (IF out = "started" THEN 1 ELSE 0)]
               /\ req_pc' =
                    [req_pc EXCEPT ![r] =
                        IF out = "started" THEN "respond" ELSE "except"]
               /\ UNCHANGED published
       ELSE \E out \in EnqueueOutcomes :
               /\ published' =
                    [published EXCEPT ![r] = @ + (IF out = "raised" THEN 0 ELSE 1)]
               /\ req_pc' =
                    [req_pc EXCEPT ![r] =
                        IF out = "published" THEN "respond" ELSE "except"]
               /\ UNCHANGED threads
    /\ UNCHANGED <<run_task_inline, broker_ok, created, responses>>

\* views.py:87-88: whatever was raised, an inline thread is started; if that
\* raises too the exception leaves the view and the request is answered 500.
DispatchFallback(r) ==
    /\ req_pc[r] = "except"
    /\ \E out \in ThreadOutcomes :
         IF out = "started"
         THEN /\ threads' = [threads EXCEPT ![r] = @ + 1]
              /\ req_pc' = [req_pc EXCEPT ![r] = "respond"]
              /\ UNCHANGED responses
         ELSE /\ req_pc' = [req_pc EXCEPT ![r] = "done"]
              /\ responses' = [responses EXCEPT ![r] = "500"]
              /\ UNCHANGED threads
    /\ UNCHANGED <<run_task_inline, broker_ok, created, published>>

\* views.py:89-94
Respond(r) ==
    /\ req_pc[r] = "respond"
    /\ responses' = [responses EXCEPT ![r] = "202"]
    /\ req_pc' = [req_pc EXCEPT ![r] = "done"]
    /\ UNCHANGED <<run_task_inline, broker_ok, created, published, threads>>

NextIntake ==
    /\ \/ LoadSettings
       \/ \E r \in Requests : CreateJob(r)
       \/ \E r \in Requests : BrokerCheck(r)
       \/ \E r \in Requests : Dispatch(r)
       \/ \E r \in Requests : DispatchFallback(r)
       \/ \E r \in Requests : Respond(r)
    /\ UNCHANGED <<pipelineVars, authVars, clientVars, veoVars, mergeVars, jobsVars>>

(***************************************************************************)
(* Concurrent runs on distinct jobs.  Each job is created by the intake    *)
(* with its own id (a fresh UUID, models.py:13), an optional product_id    *)
(* and its creation date, and is processed by one run of                   *)
(* process_video_job.  The runs share the jobs table and the bucket and    *)
(* nothing else.                                                           *)
(***************************************************************************)
JobIds == {"j1", "j2"}

\* models.py:15: product_id is null or a caller-supplied string.
ProductIds == {None, "p"}

\* created_at.strftime('%Y-%m-%d') of tasks.py:25
Dates == {"d1", "d2"}

\* Scenes per job.
JobScenes == 2

\* The row views.py:60-73 creates.
NewRow(id, product, date) ==
    NewJob @@ [id |-> id, product_id |-> product, created_at |-> date]

NoRow == [NewRow(None, None, None) EXCEPT !.status = "absent"]

\* tasks.py:25: gs://{bucket}/{product_id or id}/{date}/
StorageBase(j) ==
    <<IF j.product_id = None THEN j.id ELSE j.product_id, j.created_at>>

\* tasks.py:26,36: {storage_base}scene_{k}/
ScenePrefix(j, k) == StorageBase(j) \o <<"scene_" , ToString(k)>>

\* tasks.py:44: gs://{bucket}/{product_id or id}/merged/final.mp4
MergedTarget(j) ==
    <<IF j.product_id = None THEN j.id ELSE j.product_id,
      "merged", "final.mp4">>

\* The object name begins with the prefix (list_blobs(prefix=...) of
\* veo_service.py:138 and the listing of veo_service.py:168-177).
Under(prefix, name) ==
    /\ Len(name) >= Len(prefix)
    /\ SubSeq(name, 1, Len(prefix)) = prefix

\* A bug: the save updates every row of the table.
SaveRow_All(rs, m) == [id \in DOMAIN rs |-> m]

\* Model.save(): UPDATE ... WHERE id = the instance's primary key.
SaveRow(rs, m) == [rs EXCEPT ![m.id] = m]

\* What a run raises is put into error_message by the handler.
JobError == <<"error">>

JobsInit ==
    /\ rows = [id \in JobIds |-> NoRow]
    /\ mem = [id \in JobIds |-> NoRow]
    /\ jpc = [id \in JobIds |-> "none"]
    /\ scene = [id \in JobIds |-> 0]
    /\ bucket = {}
    /\ picked = [id \in JobIds |-> <<>>]
    /\ overlaid = [id \in JobIds |-> None]

\* views.py:60-73 and 86: the job is created and a run for it is queued.
JobCreate(id) ==
    /\ jpc[id] = "none"
    /\ \E product \in ProductIds, date \in Dates :
         rows' = [rows EXCEPT ![id] = NewRow(id, product, date)]
    /\ jpc' = [jpc EXCEPT ![id] = "load"]
    /\ UNCHANGED <<mem, scene, bucket, picked, overlaid>>

\* tasks.py:14-15
JobLoad(id) ==
    /\ jpc[id] = "load"
    /\ mem' = [mem EXCEPT ![id] = rows[id]]
    /\ jpc' = [jpc EXCEPT ![id] = "mark_veo"]
    /\ UNCHANGED <<rows, scene, bucket, picked, overlaid>>

\* tasks.py:17-19
JobMarkVeo(id) ==
    /\ jpc[id] = "mark_veo"
    /\ mem' = [mem EXCEPT ![id] = MarkProcessingVeo(@)]
    /\ rows' = SaveRow(rows, mem'[id])
    /\ scene' = [scene EXCEPT ![id] = 1]
    /\ jpc' = [jpc EXCEPT ![id] = "submit"]
    /\ UNCHANGED <<bucket, picked, overlaid>>

\* tasks.py:26-29 and 36-39: the generation is submitted with the scene's
\* prefix and the progress is saved.
JobSubmitScene(id) ==
    /\ jpc[id] = "submit"
    /\ mem' = [mem EXCEPT ![id].progress = SubmitProgress(scene[id] - 1)]
    /\ rows' = SaveRow(rows, mem'[id])
    /\ jpc' = [jpc EXCEPT ![id] = "poll"]
    /\ UNCHANGED <<scene, bucket, picked, overlaid>>

\* tasks.py:31-34 and 40-41: the generation has written its clip under the
\* prefix, in a folder named after the operation; poll_operation returns the
\* location the operation reports or, from the storage probes
\* (veo_service.py:130-177), the first .mp4 listed under the prefix.
JobPollScene(id) ==
    /\ jpc[id] = "poll"
    /\ LET prefix == ScenePrefix(mem[id], scene[id])
           clip == [name |-> prefix \o <<"op_" , id, "sample_0.mp4">>,
                    by |-> id]
       IN /\ bucket' = bucket \cup {clip}
          /\ \E o \in bucket' :
                /\ Under(prefix, o.name)
                /\ picked' = [picked EXCEPT ![id] = Append(@, o.by)]
    /\ IF scene[id] = 1
       THEN /\ mem' = [mem EXCEPT ![id] = MarkScene1Polled(@)]
            /\ rows' = SaveRow(rows, mem'[id])
       ELSE UNCHANGED <<mem, rows>>
    /\ IF scene[id] < JobScenes
       THEN /\ scene' = [scene EXCEPT ![id] = @ + 1]
            /\ jpc' = [jpc EXCEPT ![id] = "submit"]
       ELSE /\ jpc' = [jpc EXCEPT ![id] = "merge"]
            /\ UNCHANGED scene
    /\ UNCHANGED overlaid

\* tasks.py:42-51: the clips are merged into the object at the target, which
\* replaces what was there, and the job moves to the overlay stage.
JobMerge(id) ==
    /\ jpc[id] = "merge"
    /\ LET target == MergedTarget(mem[id])
           gcs_uri == [scheme |-> "gs", path |-> target]
       IN /\ bucket' = {o \in bucket : o.name # target}
                          \cup {[name |-> target, by |-> id]}
          /\ mem' = [mem EXCEPT ![id] =
                        MarkProcessingHeygen(@, gcs_uri,
                                             MakeFetchableUrl(gcs_uri))]
    /\ rows' = SaveRow(rows, mem'[id])
    /\ jpc' = [jpc EXCEPT ![id] = "overlay"]
    /\ UNCHANGED <<scene, picked, overlaid>>

\* tasks.py:52-61: the object at veo_video_url is uploaded to HeyGen and the
\* avatar video is requested; both ids are saved.
JobOverlay(id) ==
    /\ jpc[id] = "overlay"
    /\ \E o \in bucket :
         /\ o.name = mem[id].veo_video_gcs_uri.path
         /\ overlaid' = [overlaid EXCEPT ![id] = o.by]
    /\ mem' = [mem EXCEPT ![id] =
                  MarkOverlaySubmitted(MarkAssetUploaded(@, "asset"), "video")]
    /\ rows' = SaveRow(rows, mem'[id])
    /\ jpc' = [jpc EXCEPT ![id] = "finish"]
    /\ UNCHANGED <<scene, bucket, picked>>

\* tasks.py:62-91 with BG_MUSIC_URLS set and empty: the job is loaded again,
\* completed and saved.
JobComplete(id) ==
    /\ jpc[id] = "finish"
    /\ bgMusic = "empty"
    /\ mem' = [mem EXCEPT ![id] =
                  MarkCompleted(UseUnmixedUrl(rows[id], HeygenVideoUrl))]
    /\ rows' = SaveRow(rows, mem'[id])
    /\ jpc' = [jpc EXCEPT ![id] = "done"]
    /\ UNCHANGED <<scene, bucket, picked, overlaid>>

\* tasks.py:92-97: a step of lines 17-91 raised; the job is loaded again,
\* marked failed and saved.
JobFail(id) ==
    /\ jpc[id] \in {"mark_veo", "submit", "poll", "merge", "overlay", "finish"}
    /\ mem' = [mem EXCEPT ![id] = MarkFailed(rows[id], JobError)]
    /\ rows' = SaveRow(rows, mem'[id])
    /\ jpc' = [jpc EXCEPT ![id] = "done"]
    /\ UNCHANGED <<scene, bucket, picked, overlaid>>

NextJobs ==
    /\ \/ \E id \in JobIds : JobCreate(id)
       \/ \E id \in JobIds : JobLoad(id)
       \/ \E id \in JobIds : JobMarkVeo(id)
       \/ \E id \in JobIds : JobSubmitScene(id)
       \/ \E id \in JobIds : JobPollScene(id)
       \/ \E id \in JobIds : JobMerge(id)
       \/ \E id \in JobIds : JobOverlay(id)
       \/ \E id \in JobIds : JobComplete(id)
       \/ \E id \in JobIds : JobFail(id)
    /\ UNCHANGED <<pipelineVars, authVars, clientVars, veoVars, mergeVars,
                   intakeVars>>

(***************************************************************************)
(* Initial state: views.py:61-86 has created the job (status pending) and  *)
(* sent one task message for it, which the broker delivers at least once:  *)
(* queue[0] counts the deliveries of that message still to be taken.       *)
(***************************************************************************)
InitWith(workers, counts) ==
    /\ pool = workers
    /\ nScenes \in counts
    /\ bgMusic \in {"absent", "empty", "present"}
    /\ mixer \in BOOLEAN
    /\ mixer => bgMusic = "present"
    /\ db = NewJob
    /\ \E d \in 1..MaxRuns :
         queue = [r \in 0..MaxRetries |-> IF r = 0 THEN d ELSE 0]
    /\ started = 0
    /\ pc = [w \in Workers |-> "idle"]
    /\ job = [w \in Workers |-> NewJob]
    /\ i = [w \in Workers |-> 0]
    /\ scene_uris = [w \in Workers |-> <<>>]
    /\ scene_urls = [w \in Workers |-> <<>>]
    /\ final_url = [w \in Workers |-> Blank]
    /\ exc = [w \in Workers |-> NoMessage]
    /\ retries = [w \in Workers |-> 0]
    /\ calls = [w \in Workers |-> NoCalls]
    /\ run = [w \in Workers |-> NewRun]
    /\ AuthInit
    /\ ClientInit
    /\ VeoInit
    /\ MergeInit
    /\ IntakeInit
    /\ JobsInit

\* One worker process: runs on the job follow one another.
Init == InitWith({"w1"}, SceneCounts)

\* Two worker processes: runs on the same job can overlap.
InitConcurrent == InitWith(Workers, {MinScenes, MinScenes + 1})

settingsVars == <<nScenes, bgMusic, mixer, pool>>
queueVars == <<queue, started>>

sceneVars == <<i, scene_uris, scene_urls>>

(***************************************************************************)
(* Building blocks of the steps                                            *)
(***************************************************************************)
\* An exception raised inside the try block (tasks.py:16-91): control goes
\* to the except clause at tasks.py:92.
Raise(w, msg, step) ==
    /\ pc' = [pc EXCEPT ![w] = "handler"]
    /\ exc' = [exc EXCEPT ![w] = msg]
    /\ run' = [run EXCEPT ![w].failed_at = step]

\* job.save() inside the try block after the assignments that make j:
\* either every field of j is written, or the query raises.
SaveStep(w, j, next, nextI, step) ==
    /\ job' = [job EXCEPT ![w] = j]
    /\ \/ /\ db' = j
          /\ pc' = [pc EXCEPT ![w] = next]
          /\ i' = [i EXCEPT ![w] = nextI]
          /\ run' = [run EXCEPT ![w].trace = AppendStatus(@, j.status)]
          /\ UNCHANGED exc
       \/ /\ Raise(w, DbError, step)
          /\ UNCHANGED <<db, i>>

\* A remote call counted in calls[w].
Count(w, name) == calls' = [calls EXCEPT ![w][name] = @ + 1]

(***************************************************************************)
(* process_video_job (tasks.py:13-97)                                      *)
(***************************************************************************)
\* tasks.py:13-15: a worker takes a message and loads the job.  A database
\* error here is outside the try block and goes to the queue's retry.
LoadJobWithin(w, cap) ==
    /\ pc[w] \in {"idle", "done"}
    /\ started < cap
    /\ started' = started + 1
    /\ \E r \in 0..MaxRetries :
         /\ queue[r] > 0
         /\ retries' = [retries EXCEPT ![w] = r]
         /\ i' = [i EXCEPT ![w] = 0]
         /\ scene_uris' = [scene_uris EXCEPT ![w] = <<>>]
         /\ scene_urls' = [scene_urls EXCEPT ![w] = <<>>]
         /\ final_url' = [final_url EXCEPT ![w] = Blank]
         /\ exc' = [exc EXCEPT ![w] = NoMessage]
         /\ calls' = [calls EXCEPT ![w] = NoCalls]
         /\ \/ /\ queue' = [queue EXCEPT ![r] = @ - 1]
               /\ job' = [job EXCEPT ![w] = db]
               /\ pc' = [pc EXCEPT ![w] = "mark_veo"]
               /\ run' = [run EXCEPT ![w] =
                            [NewRun EXCEPT !.loaded = db.status,
                                           !.trace = <<db.status>>]]
            \/ /\ queue' = Requeue([queue EXCEPT ![r] = @ - 1], r)
               /\ pc' = [pc EXCEPT ![w] = "done"]
               /\ run' = [run EXCEPT ![w] =
                            [NewRun EXCEPT !.failed_at = "load",
                                           !.outcome = "crashed"]]
               /\ UNCHANGED job
    /\ UNCHANGED <<settingsVars, db>>

\* The runs on the job counted against the bound MaxRuns.
LoadJob(w) == LoadJobWithin(w, MaxRuns)

\* tasks.py:17-19
SaveProcessingVeo(w) ==
    /\ pc[w] = "mark_veo"
    /\ SaveStep(w, MarkProcessingVeo(job[w]), "generate", 0, "save_veo")
    /\ UNCHANGED <<settingsVars, queueVars, scene_uris, scene_urls,
                   final_url, retries, calls>>

\* tasks.py:20-27 (first scene) and tasks.py:36-37 (scene i+1)
GenerateBase(w) ==
    /\ pc[w] = "generate"
    /\ \/ /\ i[w] = 0
          /\ Raise(w, ConstructError, "construct")
          /\ UNCHANGED calls
       \/ /\ Count(w, "generate_base")
          /\ \/ /\ pc' = [pc EXCEPT ![w] = "mark_submitted"]
                /\ UNCHANGED <<exc, run>>
             \/ Raise(w, SubmitError, "generate_base")
    /\ UNCHANGED <<settingsVars, queueVars, db, job, sceneVars,
                   final_url, retries>>

\* tasks.py:28-29 and tasks.py:38-39
SaveSubmitted(w) ==
    /\ pc[w] = "mark_submitted"
    /\ SaveStep(w, [job[w] EXCEPT !.progress = SubmitProgress(i[w])],
                "poll_scene", i[w], "save_submitted")
    /\ UNCHANGED <<settingsVars, queueVars, scene_uris, scene_urls,
                   final_url, retries, calls>>

\* tasks.py:31,34 and tasks.py:41-42, and the loop test of tasks.py:35
PollScene(w) ==
    /\ pc[w] = "poll_scene"
    /\ Count(w, "poll_operation")
    /\ \/ /\ scene_uris' = [scene_uris EXCEPT ![w] =
                                Append(@, SceneUri(i[w] + 1))]
          /\ IF i[w] = 0
             THEN /\ pc' = [pc EXCEPT ![w] = "mark_polled"]
                  /\ UNCHANGED i
             ELSE /\ i' = [i EXCEPT ![w] = @ + 1]
                  /\ pc' = [pc EXCEPT ![w] =
                              IF i[w] + 1 < nScenes THEN "generate"
                              ELSE "resolve"]
          /\ UNCHANGED <<exc, run>>
       \/ /\ Raise(w, ScenePollError, "poll_operation")
          /\ UNCHANGED <<i, scene_uris>>
    /\ UNCHANGED <<settingsVars, queueVars, db, job, scene_urls, final_url,
                   retries>>

\* tasks.py:32-33, then the first loop test of tasks.py:35
SaveScene1Polled(w) ==
    /\ pc[w] = "mark_polled"
    /\ SaveStep(w, MarkScene1Polled(job[w]),
                IF 1 < nScenes THEN "generate" ELSE "resolve", 1,
                "save_polled")
    /\ UNCHANGED <<settingsVars, queueVars, scene_uris, scene_urls,
                   final_url, retries, calls>>

\* tasks.py:43: one make_fetchable_url per scene clip, in order
ResolveSceneUrls(w) ==
    /\ pc[w] = "resolve"
    /\ Count(w, "make_fetchable_url")
    /\ \/ /\ scene_urls' = [scene_urls EXCEPT ![w] =
                                [k \in 1..Len(scene_uris[w]) |->
                                    MakeFetchableUrl(scene_uris[w][k])]]
          /\ pc' = [pc EXCEPT ![w] = "merge"]
          /\ UNCHANGED <<exc, run>>
       \/ /\ Raise(w, SignError, "make_fetchable_url")
          /\ UNCHANGED scene_urls
    /\ UNCHANGED <<settingsVars, queueVars, db, job, i, scene_uris,
                   final_url, retries>>

\* tasks.py:44-46
MergeScenes(w) ==
    /\ pc[w] = "merge"
    /\ Count(w, "merge")
    /\ \/ /\ pc' = [pc EXCEPT ![w] = "resolve_merged"]
          /\ run' = [run EXCEPT ![w].merge_arg = scene_urls[w]]
          /\ UNCHANGED exc
       \/ /\ pc' = [pc EXCEPT ![w] = "handler"]
          /\ exc' = [exc EXCEPT ![w] = MergeError]
          /\ run' = [run EXCEPT ![w].failed_at = "merge",
                                ![w].merge_arg = scene_urls[w]]
    /\ UNCHANGED <<settingsVars, queueVars, db, job, sceneVars,
                   final_url, retries>>

\* tasks.py:47-48: the merged artifact made fetchable
ResolveMerged(w) ==
    /\ pc[w] = "resolve_merged"
    /\ Count(w, "make_fetchable_url")
    /\ \/ /\ pc' = [pc EXCEPT ![w] = "mark_heygen"]
          /\ UNCHANGED <<exc, run>>
       \/ Raise(w, SignError, "make_fetchable_url")
    /\ UNCHANGED <<settingsVars, queueVars, db, job, sceneVars,
                   final_url, retries>>

\* tasks.py:47-51
SaveProcessingHeygen(w) ==
    /\ pc[w] = "mark_heygen"
    /\ SaveStep(w, MarkProcessingHeygen(job[w], TargetGcs,
                                        MakeFetchableUrl(TargetGcs)),
                "upload", i[w], "save_heygen")
    /\ UNCHANGED <<settingsVars, queueVars, scene_uris, scene_urls,
                   final_url, retries, calls>>

\* tasks.py:53
UploadAsset(w) ==
    /\ pc[w] = "upload"
    /\ Count(w, "upload")
    /\ \/ /\ pc' = [pc EXCEPT ![w] = "mark_asset"]
          /\ UNCHANGED <<exc, run>>
       \/ Raise(w, UploadError, "upload")
    /\ UNCHANGED <<settingsVars, queueVars, db, job, sceneVars,
                   final_url, retries>>

\* tasks.py:54-56
SaveAsset(w) ==
    /\ pc[w] = "mark_asset"
    /\ SaveStep(w, MarkAssetUploaded(job[w], "asset"), "generate_avatar",
                i[w], "save_asset")
    /\ UNCHANGED <<settingsVars, queueVars, scene_uris, scene_urls,
                   final_url, retries, calls>>

\* tasks.py:58
GenerateAvatar(w) ==
    /\ pc[w] = "generate_avatar"
    /\ Count(w, "generate_avatar")
    /\ \/ /\ pc' = [pc EXCEPT ![w] = "mark_video"]
          /\ UNCHANGED <<exc, run>>
       \/ Raise(w, GenerateError, "generate_avatar")
    /\ UNCHANGED <<settingsVars, queueVars, db, job, sceneVars,
                   final_url, retries>>

\* tasks.py:59-61
SaveVideoId(w) ==
    /\ pc[w] = "mark_video"
    /\ SaveStep(w, MarkOverlaySubmitted(job[w], "video"), "poll_status",
                i[w], "save_video")
    /\ UNCHANGED <<settingsVars, queueVars, scene_uris, scene_urls,
                   final_url, retries, calls>>

\* tasks.py:63: poll_video_status ends on a terminal response, or gives up
PollOverlay(w) ==
    /\ pc[w] = "poll_status"
    /\ Count(w, "poll_status")
    /\ \/ \E resp \in TerminalResponses :
            IF PollResult(resp).raised
            THEN /\ pc' = [pc EXCEPT ![w] = "handler"]
                 /\ exc' = [exc EXCEPT ![w] = PollResult(resp).msg]
                 /\ run' = [run EXCEPT ![w].failed_at = "poll_status",
                                       ![w].resp = resp]
                 /\ UNCHANGED final_url
            ELSE /\ pc' = [pc EXCEPT ![w] = "reload"]
                 /\ final_url' = [final_url EXCEPT ![w] =
                                    PollResult(resp).url]
                 /\ run' = [run EXCEPT ![w].resp = resp]
                 /\ UNCHANGED exc
       \/ /\ Raise(w, PollTimeoutError, "poll_status")
          /\ UNCHANGED final_url
    /\ UNCHANGED <<settingsVars, queueVars, db, job, sceneVars, retries>>

\* tasks.py:64-65: the job is read again from the database
ReloadJob(w) ==
    /\ pc[w] = "reload"
    /\ \/ /\ job' = [job EXCEPT ![w] = db]
          /\ pc' = [pc EXCEPT ![w] = "music"]
          /\ UNCHANGED <<exc, run>>
       \/ /\ Raise(w, DbError, "reload")
          /\ UNCHANGED job
    /\ UNCHANGED <<settingsVars, queueVars, db, sceneVars, final_url,
                   retries, calls>>

\* tasks.py:66-71,79-82: the setting is read (an AttributeError when
\* settings.py does not define it), then the mixer is imported.
MusicConfig(w) ==
    /\ pc[w] = "music"
    /\ \/ /\ bgMusic = "absent"
          /\ Raise(w, MissingSettingError, "settings")
          /\ UNCHANGED job
       \/ /\ bgMusic = "empty"
          /\ job' = [job EXCEPT ![w] = UseUnmixedUrl(@, final_url[w])]
          /\ pc' = [pc EXCEPT ![w] = "complete"]
          /\ UNCHANGED <<exc, run>>
       \/ /\ bgMusic = "present" /\ ~mixer
          /\ job' = [job EXCEPT ![w] = UseUnmixedUrl(@, final_url[w])]
          /\ pc' = [pc EXCEPT ![w] = "complete"]
          /\ run' = [run EXCEPT ![w].mix = "unavailable"]
          /\ UNCHANGED exc
       \/ /\ bgMusic = "present" /\ mixer
          /\ pc' = [pc EXCEPT ![w] = "mix"]
          /\ UNCHANGED <<job, exc, run>>
    /\ UNCHANGED <<settingsVars, queueVars, db, sceneVars, final_url,
                   retries, calls>>

\* tasks.py:72-78: mix, then make the mixed artifact fetchable; any
\* exception of either keeps the unmixed URL.
MixMusic(w) ==
    /\ pc[w] = "mix"
    /\ Count(w, "mix")
    /\ \/ /\ job' = [job EXCEPT ![w] = UseMixedUrl(@, TargetMusicGcs)]
          /\ run' = [run EXCEPT ![w].mix = "mixed"]
       \/ /\ job' = [job EXCEPT ![w] = UseUnmixedUrl(@, final_url[w])]
          /\ run' = [run EXCEPT ![w].mix = "failed"]
    /\ pc' = [pc EXCEPT ![w] = "complete"]
    /\ UNCHANGED <<settingsVars, queueVars, db, sceneVars, final_url, exc,
                   retries>>

\* tasks.py:83-91
SaveCompleted(w) ==
    /\ pc[w] = "complete"
    /\ job' = [job EXCEPT ![w] = MarkCompleted(@)]
    /\ \/ /\ db' = MarkCompleted(job[w])
          /\ pc' = [pc EXCEPT ![w] = "done"]
          /\ run' = [run EXCEPT ![w].trace = AppendStatus(@, "completed"),
                                ![w].outcome = "completed"]
          /\ UNCHANGED exc
       \/ /\ Raise(w, DbError, "save_completed")
          /\ UNCHANGED db
    /\ UNCHANGED <<settingsVars, queueVars, sceneVars, final_url, retries,
                   calls>>

\* tasks.py:92-94: the except clause reads the job again.  A database
\* error here leaves the task, and the queue retries it.
HandlerLoad(w) ==
    /\ pc[w] = "handler"
    /\ \/ /\ job' = [job EXCEPT ![w] = db]
          /\ pc' = [pc EXCEPT ![w] = "handler_save"]
          /\ UNCHANGED <<queue, run>>
       \/ /\ queue' = Requeue(queue, retries[w])
          /\ pc' = [pc EXCEPT ![w] = "done"]
          /\ run' = [run EXCEPT ![w].outcome = "crashed"]
          /\ UNCHANGED job
    /\ UNCHANGED <<settingsVars, started, db, sceneVars, final_url, exc,
                   retries, calls>>

\* tasks.py:95-97
HandlerSave(w) ==
    /\ pc[w] = "handler_save"
    /\ job' = [job EXCEPT ![w] = MarkFailed(@, exc[w])]
    /\ \/ /\ db' = MarkFailed(job[w], exc[w])
          /\ run' = [run EXCEPT ![w].trace = AppendStatus(@, "failed"),
                                ![w].outcome = "failed"]
          /\ UNCHANGED queue
       \/ /\ queue' = Requeue(queue, retries[w])
          /\ run' = [run EXCEPT ![w].outcome = "crashed"]
          /\ UNCHANGED db
    /\ pc' = [pc EXCEPT ![w] = "done"]
    /\ UNCHANGED <<settingsVars, started, sceneVars, final_url, exc,
                   retries, calls>>

Next ==
    /\ \E w \in pool :
            \/ LoadJob(w)
            \/ SaveProcessingVeo(w)
            \/ GenerateBase(w)
            \/ SaveSubmitted(w)
            \/ PollScene(w)
            \/ SaveScene1Polled(w)
            \/ ResolveSceneUrls(w)
            \/ MergeScenes(w)
            \/ ResolveMerged(w)
            \/ SaveProcessingHeygen(w)
            \/ UploadAsset(w)
            \/ SaveAsset(w)
            \/ GenerateAvatar(w)
            \/ SaveVideoId(w)
            \/ PollOverlay(w)
            \/ ReloadJob(w)
            \/ MusicConfig(w)
            \/ MixMusic(w)
            \/ SaveCompleted(w)
            \/ HandlerLoad(w)
            \/ HandlerSave(w)
    /\ UNCHANGED <<authVars, clientVars, veoVars, mergeVars, intakeVars, jobsVars>>

Spec == Init /\ [][Next]_vars

SpecConcurrent == InitConcurrent /\ [][Next]_vars

(***************************************************************************)
(* One delivery of the task message and the retries the queue makes of it. *)
(* The message is retried at most MaxRetries times (tasks.py:12), so no    *)
(* more than MaxRetries + 1 runs can start and the cap below never stops   *)
(* a run the queue would start.  A worker that has taken a message keeps   *)
(* executing it and a queued message is delivered: weak fairness of the    *)
(* steps.                                                                  *)
(***************************************************************************)
InitOneDelivery == InitWith({"w1"}, {MinScenes}) /\ queue[0] = 1

Stages(w) ==
    \/ SaveProcessingVeo(w)
    \/ GenerateBase(w)
    \/ SaveSubmitted(w)
    \/ PollScene(w)
    \/ SaveScene1Polled(w)
    \/ ResolveSceneUrls(w)
    \/ MergeScenes(w)
    \/ ResolveMerged(w)
    \/ SaveProcessingHeygen(w)
    \/ UploadAsset(w)
    \/ SaveAsset(w)
    \/ GenerateAvatar(w)
    \/ SaveVideoId(w)
    \/ PollOverlay(w)
    \/ ReloadJob(w)
    \/ MusicConfig(w)
    \/ MixMusic(w)
    \/ SaveCompleted(w)
    \/ HandlerLoad(w)
    \/ HandlerSave(w)

NextRetried ==
    /\ \E w \in pool :
            \/ LoadJobWithin(w, MaxRetries + 1)
            \/ Stages(w)
    /\ UNCHANGED <<authVars, clientVars, veoVars, mergeVars, intakeVars, jobsVars>>

SpecRetried == InitOneDelivery /\ [][NextRetried]_vars /\ WF_vars(NextRetried)

(***************************************************************************)
(* The threads of one process using the credential provider, with no job   *)
(* running.                                                                *)
(***************************************************************************)
InitAuth == InitOneDelivery /\ bgMusic = "absent"

SpecAuth == InitAuth /\ [][NextAuth]_vars

(***************************************************************************)
(* The HeyGen client called on its own.                                    *)
(***************************************************************************)
SpecClient == InitAuth /\ [][NextClient]_vars

(***************************************************************************)
(* The Veo client called on its own.                                       *)
(***************************************************************************)
SpecVeo == InitAuth /\ [][NextVeo]_vars

(***************************************************************************)
(* The merge called on its own.                                            *)
(***************************************************************************)
SpecMerge == InitAuth /\ [][NextMerge]_vars

(***************************************************************************)
(* The intake on its own.                                                  *)
(***************************************************************************)
SpecIntake == InitAuth /\ [][NextIntake]_vars

(***************************************************************************)
(* Concurrent runs on distinct jobs, with BG_MUSIC_URLS missing or empty.  *)
(***************************************************************************)
InitJobs == InitOneDelivery /\ bgMusic \in {"absent", "empty"}

SpecJobs == InitJobs /\ [][NextJobs]_vars

(***************************************************************************)
(* Properties                                                              *)
(***************************************************************************)
Statuses ==
    {"pending", "processing_veo", "processing_heygen", "completed", "failed"}

TypeOK ==
    /\ db.status \in Statuses
    /\ db.credits_used \in {0, 1}
    /\ \A w \in Workers : job[w].status \in Statuses

\* The run of worker w met a database error.
HadDbError(w) ==
    \/ run[w].outcome = "crashed"
    \/ run[w].failed_at \in {"load", "save_veo", "save_submitted",
                              "save_polled", "save_heygen", "save_asset",
                              "save_video", "reload", "save_completed"}

\* The run of worker w is over and every stage of it succeeded: all scene
\* clips, the merge, the URL resolutions, the upload, the overlay submission
\* and the overlay poll, with the database answering every query.
RanAllStages(w) ==
    /\ pc[w] = "done"
    /\ final_url[w] # Blank
    /\ ~HadDbError(w)

\* C1: the persisted progress never decreases, over all runs on the job; it
\* is exactly 100 when the job is completed and below 100 when it is failed.
C1_ProgressMonotone ==
    /\ [][db.progress <= db'.progress]_vars
    /\ [](db.status = "completed" => db.progress = 100)
    /\ [](db.status = "failed" => db.progress < 100)

\* C2: once the persisted status is completed or failed, no later step of
\* any run changes any field of the job record.
C2_TerminalIsFrozen == [][db.status \in Terminal => db' = db]_vars

\* C3: the statuses a run persists, starting from the pending job it loaded,
\* follow pending, processing_veo, processing_heygen, completed in order with
\* none skipped or revisited; failed may end the sequence, and only after a
\* non-terminal status.
Pipeline == <<"pending", "processing_veo", "processing_heygen", "completed">>

IsPrefix(t, u) == Len(t) <= Len(u) /\ \A k \in 1..Len(t) : t[k] = u[k]

AllowedTrace(t) ==
    \/ IsPrefix(t, Pipeline)
    \/ /\ Len(t) >= 2
       /\ t[Len(t)] = "failed"
       /\ t[Len(t) - 1] \notin Terminal
       /\ IsPrefix(SubSeq(t, 1, Len(t) - 1), Pipeline)

C3_StatusSequence ==
    \A w \in pool :
        run[w].loaded = "pending" =>
            /\ AllowedTrace(run[w].trace)
            /\ pc[w] \notin {"idle", "mark_veo"} /\ ~HadDbError(w)
                  => db.status = run[w].trace[Len(run[w].trace)]

C3_Witness ==
    \E w \in pool :
        /\ run[w].loaded = "pending"
        /\ run[w].trace =
             <<"pending", "processing_veo", "processing_heygen", "failed">>

\* C4: a run whose stages all succeed leaves the job completed, with
\* progress 100, completed_at, processing_time_seconds and final_video_url
\* set, and credits_used = 1.
C4_SuccessCompletes ==
    \A w \in pool :
        RanAllStages(w) =>
            /\ db.status = "completed"
            /\ db.progress = 100
            /\ db.completed_at # None
            /\ db.processing_time_seconds # None
            /\ db.final_video_url # Blank
            /\ db.credits_used = 1

\* C5: when a step of a run raises, the run leaves the job failed with the
\* exception's message as error_message and no credit charged, and the run
\* issues no remote call after the failing step.
C5_FailureMarksFailed ==
    /\ [](\A w \in pool :
            pc[w] = "done" /\ run[w].failed_at \notin {None, "load"} =>
                /\ db.status = "failed"
                /\ db.error_message = exc[w]
                /\ db.credits_used = 0)
    /\ [][\A w \in pool :
            pc[w] \in {"handler", "handler_save"} => calls'[w] = calls[w]]_vars

\* C6: credits_used is 0 or 1, it is 1 only while the status is completed,
\* and it is written to 1 at most once.
C6_CreditsOnlyOnCompletion ==
    /\ [](db.credits_used \in {0, 1})
    /\ [](db.credits_used = 1 => db.status = "completed")
    /\ [][db.credits_used = 1 =>
            ~(\E w \in pool : pc[w] = "complete" /\ pc'[w] = "done")]_vars

\* C7: a run that has generated all N scenes has issued exactly one
\* generate_base call and N - 1 extend calls, and no merge call.
C7_ChainedExtension ==
    \A w \in pool :
        pc[w] = "upload" =>
            /\ calls[w].generate_base = 1
            /\ calls[w].extend = nScenes - 1
            /\ calls[w].merge = 0

\* C8: on the independent-generation path a run issues N generate_base calls
\* and then one merge call over the N clip URLs in scene order, and the job
\* is completed when the later stages succeed too.
C8_FallbackMerge ==
    \A w \in pool :
        RanAllStages(w) =>
            /\ calls[w].generate_base = nScenes
            /\ calls[w].merge = 1
            /\ run[w].merge_arg =
                 [k \in 1..nScenes |-> MakeFetchableUrl(SceneUri(k))]
            /\ db.status = "completed"

\* C9: with background music configured, a failure of the mixing step (the
\* mixer cannot be imported, the mix raises, or the mixed artifact cannot be
\* made fetchable) never reaches the failure handler: the run goes on to
\* complete the job with final_video_url the URL overlay polling returned.
MixFailed(w) == bgMusic = "present" /\ run[w].mix \in {"failed", "unavailable"}

C10_RemoteFailureDetail ==
    \A w \in pool :
        run[w].failed_at = "poll_status" /\ StatusVal(run[w].resp) = "failed"
            => /\ RemoteDetail(run[w].resp) # None
                    => Contains(exc[w], RemoteDetail(run[w].resp))
               /\ pc[w] = "done" =>
                    /\ db.status = "failed"
                    /\ db.error_message = exc[w]
                    /\ db.credits_used = 0

\* C11: every run that has started is followed, sooner or later, by a
\* terminal persisted status (completed or failed): the job is not left in
\* pending, processing_veo or processing_heygen for good.
C11_RunReachesTerminal ==
    \A w \in Workers : (pc[w] = "mark_veo") ~> (db.status \in Terminal)

(***************************************************************************)
(* Properties of the credential provider                                   *)
(***************************************************************************)
\* Thread t is inside _refresh_locked or about to enter it.
Refreshing == {"refresh", "store_token", "store_expiry", "return_fresh"}

\* Thread t is between entering and leaving the with block.
InBlock == {"check", "return_cached"} \cup Refreshing

\* The cached token is there with the expiry it was granted with.
CachePaired ==
    \/ token = NoToken
    \/ /\ token \in DOMAIN granted
       /\ expiry # NoExpiry
       /\ granted[token].expiry \in {NoExpiry, expiry}

\* C12: a call of get_access_token refreshes exactly once when no token is
\* cached or the cached token has 2 minutes or less to live, and otherwise
\* refreshes nothing and returns the cached token.
C12_RefreshWhenNeeded ==
    /\ [][\A t \in Threads :
            tpc[t] = "check" /\ tpc'[t] # "check" =>
                (tpc'[t] = "refresh" <=>
                    \/ token = NoToken
                    \/ expiry = NoExpiry
                    \/ expiry - now <= RefreshMargin)]_vars
    /\ [][\A t \in Threads :
            tpc[t] = "return_cached" /\ tpc'[t] = "ready" =>
                /\ tcall'[t].refreshes = 0
                /\ tcall'[t].ret = "token"
                /\ tcall'[t].value = token]_vars
    /\ [](\A t \in Threads :
            tpc[t] = "ready" /\ tcall[t].needed = "yes" =>
                tcall[t].refreshes = 1)

C12_Witness ==
    \E t, u \in Threads :
        /\ tpc[t] = "ready" /\ tpc[u] = "ready"
        /\ tcall[t].needed = "no" /\ tcall[t].ret = "token"
        /\ tcall[t].value = token /\ token # NoToken
        /\ tcall[u].needed = "yes" /\ tcall[u].refreshes = 1
        /\ tcall[u].ret = "token"

\* C13: at most one refresh is in flight, no thread reads the cache while
\* another refreshes it, every reader finds the token with its own expiry,
\* and callers arriving in the same minute cause one refresh between them.
C13_OneRefreshAtATime ==
    /\ Cardinality({t \in Threads : tpc[t] \in Refreshing}) <= 1
    /\ Cardinality({t \in Threads : tpc[t] \in InBlock}) <= 1
    /\ \A t \in Threads : tpc[t] \in {"check", "return_cached"} => CachePaired
    /\ \A m, n \in DOMAIN granted : m # n => granted[m].at # granted[n].at

\* C14: a refresh that raises ends the call at once: the caller gets the
\* exception after that one attempt, the lock it entered is free again, and
\* the cached token and expiry are as they were, so a cache that needed a
\* refresh still needs it.
C14_RefreshFailureSurfaces ==
    [][\A t \in Threads :
         tpc[t] = "refresh" /\ tpc'[t] = "ready" =>
             /\ tcall'[t].ret = "raised"
             /\ tcall'[t].refreshes = 1
             /\ lock_holder'[tlock[t]] = NoThread
             /\ token' = token
             /\ expiry' = expiry
             /\ NeedsRefresh(token, expiry, now)
                    => NeedsRefresh(token', expiry', now')]_vars

C14_Witness ==
    \E t \in Threads :
        /\ tcall[t].prev = "raised"
        /\ tcall[t].needed = "yes"
        /\ tpc[t] = "store_token"

\* C15: one provider object is created, its initialisation runs once, and
\* a construction never clears a token that is cached.
C15_ConstructedOnce ==
    /\ [](inits.objects <= 1)
    /\ [](inits.entered - inits.failed <= 1)
    /\ [][\A t \in Threads :
            tpc[t] = "init_reset" /\ tpc'[t] = "init_load" =>
                token = NoToken]_vars

(***************************************************************************)
(* Properties of the HeyGen client                                         *)
(***************************************************************************)
\* C16: the upload raises for every status other than 200, with the body in
\* the message of a status that is neither 400 nor 401; on 200 it returns
\* an id the body carries, and raises when the body carries none; and a
\* caller can tell a 401, a 400 and another failure status apart by the
\* class of the exception raised.
C16_UploadClassifies ==
    /\ op = "uploaded" /\ log # <<>> /\ log[1].kind = "response" =>
          /\ log[1].code # 200 => result.kind = "raised"
          /\ log[1].code \notin {200, 400, 401} => Contains(result.msg, Body)
          /\ log[1].code = 200 /\ IdsIn(log[1].data) # {} =>
                result.kind = "returned" /\ result.value \in IdsIn(log[1].data)
          /\ log[1].code = 200 /\ IdsIn(log[1].data) = {} =>
                result.kind = "raised"
    /\ \A p, q \in seen : p.class # q.class => p.type # q.type

\* The submission met something generate_overlay is to try again after.
Retryable(r) ==
    \/ r.kind = "status" /\ r.code \in {502, 429}
    \/ r.kind = "network"

\* C17: the generation request is submitted at most 3 times; a submission
\* after the first follows only a 502, a 429 or a network error, and a wait
\* of k times the fixed delay after the k-th attempt; any other failure is
\* followed by no wait and no submission.
C17_GenerateRetries ==
    op \in {"generate", "generate_end", "generated"} =>
        /\ Len(log) <= GenerateAttempts
        /\ \A k \in 1..(Len(log) - 1) :
              /\ Retryable(log[k])
              /\ k \in DOMAIN sleeps
              /\ sleeps[k] = k * BackoffUnit
        /\ log # <<>> /\ ~Retryable(log[Len(log)]) =>
              /\ Len(sleeps) = Len(log) - 1
              /\ op # "generate"

C17_Witness ==
    /\ op = "generated"
    /\ Len(log) = GenerateAttempts
    /\ log[1] = [kind |-> "status", code |-> 502]
    /\ log[2].kind = "network"
    /\ log[3].kind = "ok"
    /\ sleeps = <<BackoffUnit, 2 * BackoffUnit>>
    /\ result.kind = "returned"

\* C18: when all 3 attempts met a 502, a 429 or a network error, the error
\* raised carries what the last attempt met: its status code and body, or
\* its network error.
C18_LastErrorSurfaces ==
    /\ op = "generated"
    /\ Len(log) = GenerateAttempts
    /\ \A k \in DOMAIN log : Retryable(log[k])
    => /\ result.kind = "raised"
       /\ \A n \in DOMAIN ErrorText(log[Len(log)]) :
             Contains(result.msg, ErrorText(log[Len(log)])[n])

\* C19: a status response that reports completed or failed is the last
\* request of the call; completed with a URL returns that URL, completed
\* without one raises a RuntimeError, and failed raises a RuntimeError that
\* carries the error detail of the response.
C19_PollEndsOnTerminal ==
    op \in {"poll", "polled"} =>
        /\ \A k \in 1..(Len(log) - 1) : ~IsTerminal(log[k])
        /\ log # <<>> /\ IsTerminal(log[Len(log)]) =>
              /\ op = "polled"
              /\ StatusVal(log[Len(log)].resp) = "completed"
                   /\ FinalUrlOf(log[Len(log)].resp) # Blank =>
                     result = Returned(FinalUrlOf(log[Len(log)].resp))
              /\ StatusVal(log[Len(log)].resp) = "completed"
                   /\ FinalUrlOf(log[Len(log)].resp) = Blank =>
                     result.kind = "raised" /\ result.type = "RuntimeError"
              /\ StatusVal(log[Len(log)].resp) = "failed" =>
                     /\ result.kind = "raised"
                     /\ result.type = "RuntimeError"
                     /\ RemoteDetail(log[Len(log)].resp) # None =>
                          Contains(result.msg,
                                   RemoteDetail(log[Len(log)].resp))

\* The status request met something poll_status goes on polling after.
KeepsPolling(r) ==
    \/ r.kind = "json" /\ ~IsTerminal(r)
    \/ r.kind \in {"read_timeout", "network"}
    \/ r.kind = "status" /\ r.code \in {429, 502, 503}

\* C20: a call of poll_status makes at most max_retries status requests,
\* and when none of them met a terminal status (only statuses still in
\* work, read timeouts, 429/502/503 and network errors) it ends after
\* max_retries requests with a TimeoutError whose message says the video
\* may still be processing.
C20_PollTerminates ==
    /\ op \in {"poll", "polled"} => Len(log) <= max_retries
    /\ op = "poll" /\ (\A k \in DOMAIN log : KeepsPolling(log[k])) =>
          attempt = Len(log)
    /\ op = "polled" /\ (\A k \in DOMAIN log : KeepsPolling(log[k])) =>
          /\ Len(log) = max_retries
          /\ result.kind = "raised"
          /\ result.type = "TimeoutError"
          /\ Contains(result.msg, "Video might still be processing on HeyGen")

C20_Witness ==
    /\ op = "polled"
    /\ Len(log) = MaxPollAttempts
    /\ log[1].kind = "read_timeout"
    /\ log[2] = [kind |-> "status", code |-> 503, resp |-> NoResponse]
    /\ log[3].kind = "json"
    /\ result.type = "TimeoutError"

(***************************************************************************)
(* Properties of the persisted job (continued)                             *)
(***************************************************************************)
\* C27: in every persisted state of the job, over all runs on it, an error
\* message is present only when the status is failed.
C27_ErrorOnlyWhenFailed ==
    db.error_message # NoMessage => db.status = "failed"

\* C28: every persisted progress is within 0..100, for every accepted scene
\* count; and it is 10 when scene generation is entered, 60 when overlay
\* generation is entered, 70 after the asset upload, 80 after the overlay
\* submission and 100 on completion.
C28_ProgressInRange ==
    /\ [](db.progress \in 0..100)
    /\ [][/\ db'.status = "processing_veo" /\ db.status # "processing_veo"
             => db'.progress = 10
          /\ db'.status = "processing_heygen"
                /\ db.status # "processing_heygen"
             => db'.progress = 60
          /\ \A w \in Workers :
               /\ pc[w] = "mark_asset" /\ pc'[w] = "generate_avatar"
                  => db'.progress = 70
               /\ pc[w] = "mark_video" /\ pc'[w] = "poll_status"
                  => db'.progress = 80
          /\ db'.status = "completed" /\ db.status # "completed"
             => db'.progress = 100]_vars

\* C30: the save of the failure handler changes only status and
\* error_message of the persisted job (progress and the artifact references
\* keep their persisted values), and the handler makes no call to storage
\* or to a remote service.
C30_HandlerFrame ==
    [][\A w \in Workers :
         pc[w] \in {"handler", "handler_save"} =>
            /\ db' = [db EXCEPT !.status = db'.status,
                                !.error_message = db'.error_message]
            /\ db'.status \in {db.status, "failed"}
            /\ calls' = calls]_vars

C30_Witness ==
    \E w \in Workers :
        /\ pc[w] = "done"
        /\ run[w].outcome = "failed"
        /\ run[w].failed_at = "generate_avatar"
        /\ db.status = "failed"
        /\ db.error_message = GenerateError
        /\ db.progress = 70
        /\ db.heygen_asset_id = "asset"
        /\ db.veo_video_gcs_uri = TargetGcs

(***************************************************************************)
(* Properties of the HeyGen client (continued)                             *)
(***************************************************************************)
\* C29: in poll_video_status a status request that meets a read timeout, or
\* one of the statuses 502, 503, 429, does not end the call: the usual wait
\* follows and the polling goes on while the budget of max_retries requests
\* lasts; a request that meets any other error status is the last one, and
\* the call raises a RuntimeError naming that status.
C29_PollErrorPolicy ==
    op \in {"poll", "polled"} =>
        \A k \in DOMAIN log :
            /\ \/ log[k].kind = "read_timeout"
               \/ log[k].kind = "status" /\ log[k].code \in {502, 503, 429}
               => /\ k <= max_retries
                  /\ k \in DOMAIN sleeps
                  /\ sleeps[k] = PollInterval
                  /\ k = Len(log) /\ op = "polled" =>
                        k = max_retries /\ result.type = "TimeoutError"
            /\ log[k].kind = "status" /\ log[k].code \notin {502, 503, 429}
               => /\ k = Len(log)
                  /\ op = "polled"
                  /\ result.kind = "raised"
                  /\ result.type = "RuntimeError"
                  /\ Contains(result.msg, ToString(log[k].code))
                  /\ Len(sleeps) = k - 1

C29_Witness ==
    /\ op = "polled"
    /\ Len(log) = MaxPollAttempts
    /\ log[1].kind = "read_timeout"
    /\ log[2] = [kind |-> "status", code |-> 429, resp |-> NoResponse]
    /\ log[3] = [kind |-> "status", code |-> 500, resp |-> NoResponse]
    /\ sleeps = <<PollInterval, PollInterval>>
    /\ result.type = "RuntimeError"

(***************************************************************************)
(* Properties of the pollers' timeouts                                     *)
(***************************************************************************)
\* The messages with which a poller gives up when its budget is used up
\* (heygen_service.py:357-363, veo_service.py:267).
TimeoutMessages == {PollTimeoutError, ScenePollError}

\* The message tells its reader that the remote work may still be going on.
SaysStillRunning(msg) ==
    \E k \in DOMAIN msg :
        msg[k] \in {"Video might still be processing on HeyGen"}

\* C21: when a run fails because a poller (of the scene operation or of the
\* overlay video) used up its budget, the error_message persisted with the
\* failed job is the poller's message, and that message says the operation
\* may still be running remotely.
C21_TimeoutSaysStillRunning ==
    \A w \in Workers :
        /\ pc[w] = "done"
        /\ run[w].outcome = "failed"
        /\ run[w].failed_at \in {"poll_operation", "poll_status"}
        /\ exc[w] \in TimeoutMessages
        => /\ db.status = "failed"
           /\ db.error_message = exc[w]
           /\ SaysStillRunning(db.error_message)

(***************************************************************************)
(* Properties of the Veo client                                            *)
(***************************************************************************)
\* The positions of veo_log where the call did ev.
Did(ev) == {k \in DOMAIN veo_log : veo_log[k].ev = ev}

\* C22: in poll_operation a status request that finds the endpoint
\* unreachable, or is answered 401, is the last thing the call does: it
\* raises, and no status request, storage probe or wait follows.
C22_FatalAtOnce ==
    veo_op \in {"poll", "polled"} =>
        \A k \in Did("get") :
            veo_log[k].out \in {"401", "unreachable"} =>
                /\ k = Len(veo_log)
                /\ veo_op = "polled"
                /\ veo_result.kind = "raised"

C22_Witness ==
    /\ veo_op = "polled"
    /\ veo_urls = 2
    /\ veo_round = 1
    /\ Cardinality(Did("sleep")) = 1
    /\ veo_log[Len(veo_log) - 1] = Event("get", "url1", "404")
    /\ veo_log[Len(veo_log)] = Event("get", "url2", "401")
    /\ veo_result = Raised("RuntimeError", VeoAuthError)

\* The status request at position k is the last of its round, and every
\* request of the round found the endpoint not found or unavailable.
RoundWithoutData(k) ==
    /\ veo_log[k].ev = "get"
    /\ k + 1 \in DOMAIN veo_log => veo_log[k + 1].ev # "get"
    /\ \A j \in {k - 1, k} :
          j \in DOMAIN veo_log /\ veo_log[j].ev = "get" =>
              veo_log[j].out \in {"404", "503"}

\* C23: poll_operation makes at most max_retries rounds; when no answer and
\* no storage probe gave a location (and no request was fatal) it has made
\* all of them and raises TimeoutError; after a round in which the endpoint
\* was only not found or unavailable it probes the expected storage
\* location (the well-known paths, then the listing) before the wait that
\* precedes the next round; and a probe that finds a clip ends the call,
\* which returns the location found.
C23_PollOperationTerminates ==
    veo_op \in {"poll", "polled"} =>
        /\ Cardinality(Did("round")) <= veo_max
        /\ /\ veo_op = "polled"
           /\ \A k \in Did("get") : veo_log[k].out \notin {"401", "unreachable"}
           /\ \A k \in Did("answer") :
                 veo_log[k].out \notin {"done_videos", "done_predictions"}
           /\ \A k \in Did("probe") : veo_log[k].out = "none"
           => /\ Cardinality(Did("round")) = veo_max
              /\ veo_result.kind = "raised"
              /\ veo_result.type = "TimeoutError"
        /\ \A k \in DOMAIN veo_log :
              veo_expected /\ RoundWithoutData(k) =>
                 /\ k + 1 \in DOMAIN veo_log
                 /\ veo_log[k + 1].ev = "probe"
                 /\ veo_log[k + 1].what = "public"
                 /\ veo_log[k + 1].out = "none" =>
                       /\ veo_log[k + 2].ev = "probe"
                       /\ veo_log[k + 2].what = "list"
                       /\ veo_log[k + 2].out = "none" =>
                             veo_log[k + 3].ev = "sleep"
        /\ \A k \in Did("probe") :
              veo_log[k].out = "found" =>
                 /\ k = Len(veo_log)
                 /\ veo_op = "polled"
                 /\ veo_result = Returned(veo_log[k].what)

C23_Witness ==
    /\ veo_op = "polled"
    /\ veo_expected
    /\ veo_urls = 1
    /\ veo_max = MaxVeoRounds
    /\ veo_log = <<Event("round", "", ""), Event("get", "url1", "404"),
                   Event("probe", "public", "none"),
                   Event("probe", "list", "none"), Event("sleep", "", ""),
                   Event("round", "", ""), Event("get", "url1", "503"),
                   Event("probe", "public", "none"),
                   Event("probe", "list", "found")>>
    /\ veo_result = Returned("list")

\* The submissions of the call, in order.
Posts == SelectSeq(veo_log, LAMBDA e : e.ev = "post")

\* The backend rejected the submission for policy reasons.
PolicyRejected(e) ==
    /\ e.out = "status"
    /\ e.body.message = "allowlisted" \/ e.body.status = "FAILED_PRECONDITION"

\* C24: generate_base_video submits the image-conditioned request first and
\* makes at most 2 submissions; the second is the text-only request and is
\* made only after a policy rejection of the first (and always then); any
\* other rejection of the first, and a rejection of the text-only request,
\* make the call raise.
C24_FallbackOnce ==
    veo_op = "submitted" =>
        /\ Len(Posts) <= 2
        /\ Len(Posts) >= 1 => Posts[1].what = "image"
        /\ Len(Posts) = 2 <=> Len(Posts) >= 1 /\ PolicyRejected(Posts[1])
        /\ Len(Posts) = 2 => Posts[2].what = "text"
        /\ Len(Posts) >= 1 /\ Posts[1].out = "status"
              /\ ~PolicyRejected(Posts[1])
           => Len(Posts) = 1 /\ veo_result.kind = "raised"
        /\ Len(Posts) = 2 /\ Posts[2].out # "ok" => veo_result.kind = "raised"
        /\ veo_result.kind = "returned" =>
              Len(Posts) >= 1 /\ Posts[Len(Posts)].out = "ok"

C24_Witness ==
    /\ veo_op = "submitted"
    /\ Len(Posts) = 2
    /\ Posts[1].body = [json |-> TRUE, message |-> "other",
                        status |-> "FAILED_PRECONDITION"]
    /\ Posts[2] = Event("post", "text", "ok")
    /\ veo_result = Returned("operation")

(***************************************************************************)
(* Properties of the merge                                                 *)
(***************************************************************************)
\* C25: the list handed to the concatenation names the download of clip 1,
\* then of clip 2, and so on, each once; so the merged file, and the object
\* uploaded, hold the clips' contents in the order of the input URLs.
C25_MergeKeepsOrder ==
    /\ merge_op \in {"upload", "returned"} =>
          /\ Len(list_file) = Len(clips)
          /\ \A k \in DOMAIN clips :
                /\ list_file[k] = temp_paths[k]
                /\ downloaded[list_file[k].n] = clips[k]
          /\ \A j, k \in DOMAIN list_file :
                j # k => list_file[j] # list_file[k]
          /\ merged = clips
    /\ merge_op = "returned" => uploaded = clips

C25_Witness ==
    /\ merge_op = "returned"
    /\ clips = <<"B", "A", "B">>
    /\ uploaded = <<"B", "A", "B">>

\* C26: when merge_scene_urls_to_gcs has returned or raised, none of the
\* temporary files it created exists any more.
C26_TempFilesReleased ==
    merge_op \in {"returned", "raised"} => files = {}

(***************************************************************************)
(* Properties of the runs (continued)                                      *)
(***************************************************************************)
\* C31: a run that meets a database error, at whatever step, is not ended
\* by marking the job failed: the error leaves the task and the queue
\* delivers the message again with retries + 1, at most MaxRetries times;
\* and every run starts at the load of the job, none in the middle.
C31_DbErrorRetried ==
    /\ [](\A w \in pool :
            /\ pc[w] = "done" /\ HadDbError(w) => run[w].outcome = "crashed"
            /\ retries[w] <= MaxRetries)
    /\ [][\A w \in pool :
            /\ pc[w] \in {"idle", "done"} /\ pc'[w] # pc[w]
               => pc'[w] \in {"mark_veo", "done"} /\ run'[w].trace \in
                     {<<>>, <<db.status>>}
            /\ run'[w].outcome = "crashed" /\ run'[w] # run[w]
                  /\ retries'[w] < MaxRetries
               => queue'[retries'[w] + 1] > queue[retries'[w] + 1]]_vars

\* C34: with no background-music setting, or an empty one, a run whose
\* stages all succeeded leaves the job completed with the URL the overlay
\* poll returned as final_video_url, and calls no mixer.
C34_NoMusicCompletes ==
    \A w \in pool :
        RanAllStages(w) /\ bgMusic \in {"absent", "empty"} =>
            /\ db.status = "completed"
            /\ db.final_video_url = final_url[w]
            /\ calls[w].mix = 0

\* The run of w makes the remote call counted under name in this step.
Calls(w, name) == calls'[w][name] > calls[w][name]

\* C37: a run submits and polls scenes only while the persisted status is
\* processing_veo; it uploads the asset, submits the overlay and polls it
\* only while the persisted status is processing_heygen and all scene clips
\* are resolved; and the asset id and the video id are persisted before the
\* overlay submission and the overlay poll that use them.
C37_CallsInOrder ==
    [][\A w \in pool :
         /\ Calls(w, "generate_base") \/ Calls(w, "poll_operation")
            => db.status = "processing_veo"
         /\ Calls(w, "upload") \/ Calls(w, "generate_avatar")
               \/ Calls(w, "poll_status")
            => /\ db.status = "processing_heygen"
               /\ Len(scene_uris[w]) = nScenes
         /\ Calls(w, "generate_avatar")
            => db.heygen_asset_id # "" /\ db.heygen_asset_id = job[w].heygen_asset_id
         /\ Calls(w, "poll_status")
            => db.heygen_video_id # "" /\ db.heygen_video_id = job[w].heygen_video_id
      ]_vars

C37_Witness ==
    \E w \in pool :
        /\ nScenes = 2
        /\ calls[w].generate_base = 2
        /\ calls[w].poll_operation = 2
        /\ calls[w].poll_status = 1
        /\ db.status = "processing_heygen"
        /\ db.heygen_asset_id = "asset"
        /\ db.heygen_video_id = "video"

(***************************************************************************)
(* Properties of the Veo client (continued)                                *)
(***************************************************************************)
\* C35: poll_operation returns a location only when some status answer has
\* reported the operation done or the last round got no answer at all; and
\* a round whose answer reports the operation not done never ends with a
\* location returned (no probe finds one before the wait of that round).
C35_NoLocationWhileRunning ==
    veo_op \in {"poll", "polled"} =>
        /\ veo_result.kind = "returned" =>
              \/ \E k \in Did("answer") : veo_log[k].out # "running"
              \/ \A k \in Did("answer") :
                    \E r \in Did("round") : k < r
        /\ \A k \in Did("answer") :
              veo_log[k].out = "running" =>
                 \A j \in Did("probe") :
                    j > k /\ veo_log[j].out = "found" =>
                       \E sl \in Did("sleep") : k < sl /\ sl < j

\* C38: every submission of generate_base_video (with the image or with the
\* text only) and of extend_video carries duration 8 seconds, aspect ratio
\* 9:16, resolution 720p and one sample, whatever duration the scene asks
\* for.
C38_FixedFormat ==
    veo_op \in {"submitted", "extended"} =>
        /\ Len(veo_params) = Len(Posts)
        /\ \A k \in DOMAIN veo_params :
              /\ veo_params[k].durationSeconds = 8
              /\ veo_params[k].aspectRatio = "9:16"
              /\ veo_params[k].resolution = "720p"
              /\ veo_params[k].sampleCount = 1

\* C36: every generate request answered 202 has created one job in status
\* pending and has started exactly one run of process_video_job for it: one
\* task message on the queue or one inline thread, never both and never
\* none, whatever the broker check and the enqueue call did.
C36_ExactlyOneRun ==
    \A r \in Requests :
        responses[r] = "202" =>
            /\ created[r] = "pending"
            /\ published[r] + threads[r] = 1

\* C32: a run of process_video_job on job A reads and writes only the row of
\* job A: in every step of concurrent runs on distinct jobs, a row changes
\* only in a step of the run (or of the creation) of its own job, the
\* instance a run holds is the row of its own job, and every row keeps its
\* own id.
C32_OwnRowOnly ==
    /\ [][\A id \in JobIds :
             /\ rows'[id] # rows[id] => jpc'[id] # jpc[id]
             /\ mem'[id] # mem[id] =>
                   /\ jpc'[id] # jpc[id]
                   /\ mem'[id].id = id
                   /\ rows'[id] # rows[id] => rows'[id] = mem'[id]]_vars
    /\ [](\A id \in JobIds : jpc[id] # "none" => rows[id].id = id)

\* Two runs have both written their rows, one of them to the end, while the
\* other is still in its scene stage.
C32_Witness ==
    \E a, b \in JobIds :
        /\ a # b
        /\ jpc[a] = "done"
        /\ rows[a].status = "completed"
        /\ jpc[b] = "poll"
        /\ rows[b].status = "processing_veo"
        /\ rows[b].progress = 20

\* C33: concurrent runs of distinct jobs never share a storage location: the
\* scene prefixes and the merged target of two different jobs differ, every
\* clip a run took for a scene was written for its own job, and the merged
\* clip a run has written, and the one it hands to the overlay, is its own.
C33_DisjointLocations ==
    /\ \A a, b \in JobIds :
          a # b /\ jpc[a] # "none" /\ jpc[b] # "none" =>
             /\ MergedTarget(rows[a]) # MergedTarget(rows[b])
             /\ \A k, l \in 1..JobScenes :
                   ScenePrefix(rows[a], k) # ScenePrefix(rows[b], l)
    /\ \A id \in JobIds :
          /\ \A k \in DOMAIN picked[id] : picked[id][k] = id
          /\ overlaid[id] \in {None, id}
          /\ mem[id].veo_video_gcs_uri # Blank =>
                \A o \in bucket :
                   o.name = MergedTarget(rows[id]) => o.by = id

====
